---- MODULE Spec2Model ----
(***************************************************************************)
(* A model of yext/glog-contrib: the sentry bridge (CaptureErrors,         *)
(* FromGlogEvent and its formatters) and the stacktrace package            *)
(* (ExtractStacktrace, ExtractFrames, GetXErrorStackTrace, path helpers).  *)
(*                                                                         *)
(* Go strings are modelled as sequences of one-character strings, so that  *)
(* prefix stripping, splitting and formatting are computed, not assumed.   *)
(* A nil error, a nil pointer and a nil slice are written Nil / <<>>.      *)
(***************************************************************************)
EXTENDS Integers, Sequences, FiniteSets, TLC

VARIABLES
    \* ---- CaptureErrors (specification Spec) ----
    dsns,        \* the dsns argument of CaptureErrors
    comm,        \* events sent on the glog channel and not yet received
    closed,      \* the glog channel has been closed
    pc,          \* position of CaptureErrors: "range", "hung", "panicked", "returned"
    handled,     \* events received so far by the range loop, in order
    invoked,     \* number of FromGlogEvent invocations made by the loop
    captured,    \* captured[i]: events given to the hub of the i-th client
    logged,      \* what handling has logged: events given to glog and not yet
                 \* on the channel, and the number of lines of the local log
    \* ---- FromGlogEvent applied to one event (specification FromSpec) ----
    fingerprinting, \* the sentryFingerprinting flag
    gopath,         \* the GOPATH environment variable
    ev,             \* the glog.Event handed to FromGlogEvent
    out,            \* what the call produced
    \* ---- the chain-following loops, one step at a time (WalkSpec) ----
    wpc,         \* position inside FromGlogEvent's glog.ErrorArg case
    wroot,       \* t.Error, the annotated error value
    wouter,      \* err of the record loop
    werr,        \* err of the loop that runs inside it (headline, printer)
    wi,          \* the counter i of the record loop
    wrecs,       \* number of records appended so far
    wturns,      \* iterations the loop at wpc has made so far, modulo 2
    \* ---- the helpers applied to one argument (HelperSpec, FramesSpec) ----
    arg,         \* the argument: a string, or a list of program counters
    prefixArg,   \* the possiblePrefix argument of prependMessage, <<>> for the others
    applied,     \* the helper that was applied to it, "" before the call
    res,         \* what the helper returned
    \* ---- concurrent invocations of FromGlogEvent (CallsSpec) ----
    running,     \* running[t]: the event, position, locals and outcome of call t
    \* ---- gelf.Capture (GelfSpec) ----
    gelf,        \* the channel, the rate limiter, the logger and the position
    \* ---- the printer of GetXErrorStackTrace, one call at a time (PrinterSpec) ----
    printer      \* the xerrorsStack, and the calls made on it so far

vars == <<dsns, comm, closed, pc, handled, invoked, captured, logged,
          fingerprinting, gopath, ev, out, wpc, wroot, wouter, werr, wi, wrecs,
          wturns, arg, prefixArg, applied, res, running, gelf, printer>>

pipeVars == <<dsns, comm, closed, pc, handled, invoked, captured, logged>>
fromVars == <<ev, out>>
envVars  == <<fingerprinting, gopath>>
walkVars == <<wpc, wroot, wouter, werr, wi, wrecs, wturns>>
helperVars == <<arg, prefixArg, applied, res>>
callVars == <<running>>
gelfVars == <<gelf>>
printVars == <<printer>>

Nil == 0

(***************************************************************************)
(* Go's strings package, on sequences of characters.                       *)
(***************************************************************************)
MinOf(S) == CHOOSE x \in S : \A y \in S : x <= y
MaxOf(S) == CHOOSE x \in S : \A y \in S : y <= x

\* s[n:] and s[:n]
Drop(s, n) == SubSeq(s, n + 1, Len(s))
Take(s, n) == SubSeq(s, 1, n)

HasPrefix(s, p) == Len(p) <= Len(s) /\ SubSeq(s, 1, Len(p)) = p
HasSuffix(s, p) == Len(p) <= Len(s) /\ SubSeq(s, Len(s) - Len(p) + 1, Len(s)) = p
TrimPrefix(s, p) == IF HasPrefix(s, p) THEN Drop(s, Len(p)) ELSE s
TrimSuffix(s, p) == IF HasSuffix(s, p) THEN Take(s, Len(s) - Len(p)) ELSE s

\* strings.Index: the 0-based offset of the first occurrence, -1 when absent
Index(s, sub) ==
    LET hits == {i \in 1..(Len(s) - Len(sub) + 1) : SubSeq(s, i, i + Len(sub) - 1) = sub}
    IN  IF hits = {} THEN -1 ELSE MinOf(hits) - 1

\* strings.LastIndex
LastIndex(s, sub) ==
    LET hits == {i \in 1..(Len(s) - Len(sub) + 1) : SubSeq(s, i, i + Len(sub) - 1) = sub}
    IN  IF hits = {} THEN -1 ELSE MaxOf(hits) - 1

IsSpace(c) == c \in {" ", "\n", "\t", "\r"}

\* strings.TrimSpace
TrimSpace(s) ==
    LET keep == {i \in 1..Len(s) : ~IsSpace(s[i])}
    IN  IF keep = {} THEN <<>> ELSE SubSeq(s, MinOf(keep), MaxOf(keep))

\* strconv.Itoa / the %d verb, for the non-negative line numbers of a frame
Digit(d) == <<"0", "1", "2", "3", "4", "5", "6", "7", "8", "9">>[d + 1]
RECURSIVE Itoa(_)
Itoa(n) == IF n < 10 THEN <<Digit(n)>> ELSE Itoa(n \div 10) \o <<Digit(n % 10)>>

(***************************************************************************)
(* sentry/formatters.go                                                    *)
(***************************************************************************)

\* removeGlogPrefixFromMessage, were the last "] " looked for
removeLastGlogPrefix(msg) ==
    LET square == LastIndex(msg, <<"]", " ">>)
    IN  IF square # -1 THEN Drop(msg, square + 2) ELSE msg

\* removeGlogPrefixFromMessage: drop everything up to the first "] "
removeGlogPrefixFromMessage(msg) ==
    LET square == Index(msg, <<"]", " ">>)
    IN  IF square # -1 THEN Drop(msg, square + 2) ELSE msg

\* strings.Split(s, "\n")[0]
FirstLine(s) ==
    LET nl == Index(s, <<"\n">>)
    IN  IF nl = -1 THEN s ELSE Take(s, nl)

\* splitMessage: <<type, value>> of the first line, cut at the first ": "
splitMessage(msg) ==
    LET firstLine == FirstLine(TrimSpace(msg))
        colon     == Index(firstLine, <<":", " ">>)
    IN  IF colon # -1
        THEN <<Take(firstLine, colon), Drop(firstLine, colon + 2)>>
        ELSE <<firstLine, <<>>>>

\* prependMessage as the older backend wrote it: headline, blank line, message
prependBlankLine(possiblePrefix, fullMsg) ==
    possiblePrefix \o <<"\n", "\n">> \o fullMsg

\* prependMessage without the cut of a leading copy of the headline
prependUncut(possiblePrefix, fullMsg) ==
    LET trimmedMsg == TrimPrefix(TrimSpace(fullMsg), <<":">>)
    IN  IF Len(trimmedMsg) > 0
        THEN possiblePrefix \o <<"\n">> \o trimmedMsg
        ELSE possiblePrefix

\* prependMessage
prependMessage(possiblePrefix, fullMsg) ==
    LET t1 == TrimPrefix(fullMsg, possiblePrefix)
        t2 == TrimSpace(t1)
        trimmedMsg == TrimPrefix(t2, <<":">>)
    IN  IF Len(trimmedMsg) > 0
        THEN possiblePrefix \o <<"\n">> \o trimmedMsg
        ELSE possiblePrefix

\* \w of the regular expression formatStringRe
IsWord(c) ==
    c \in {"a", "b", "c", "d", "e", "f", "g", "h", "i", "j", "k", "l", "m",
           "n", "o", "p", "q", "r", "s", "t", "u", "v", "w", "x", "y", "z",
           "A", "B", "C", "D", "E", "F", "G", "H", "I", "J", "K", "L", "M",
           "N", "O", "P", "Q", "R", "S", "T", "U", "V", "W", "X", "Y", "Z",
           "0", "1", "2", "3", "4", "5", "6", "7", "8", "9", "_"}

\* The length of the match of %#?\+?\w+ ? at offset i of s (1-based), or 0.
FormatMatchLen(s, i) ==
    IF i > Len(s) \/ s[i] # "%" THEN 0
    ELSE LET a == IF i + 1 <= Len(s) /\ s[i + 1] = "#" THEN i + 2 ELSE i + 1
             b == IF a <= Len(s) /\ s[a] = "+" THEN a + 1 ELSE a
             nonword == {k \in b..Len(s) : ~IsWord(s[k])}
             e == IF nonword = {} THEN Len(s) + 1 ELSE MinOf(nonword)
         IN  IF e = b THEN 0
             ELSE IF e <= Len(s) /\ s[e] = " " THEN e + 1 - i ELSE e - i

\* formatStringRe.ReplaceAllString(format, "")
RECURSIVE StripDirectives(_, _)
StripDirectives(s, i) ==
    IF i > Len(s) THEN <<>>
    ELSE LET n == FormatMatchLen(s, i)
         IN  IF n > 0 THEN StripDirectives(s, i + n)
             ELSE <<s[i]>> \o StripDirectives(s, i + 1)

\* cleanupFormatString
cleanupFormatString(format) ==
    TrimSpace(TrimSuffix(TrimSpace(StripDirectives(format, 1)), <<":">>))

(***************************************************************************)
(* path, path/filepath: the functions GuessAbsPath uses.                   *)
(***************************************************************************)

\* the components of a slash-separated path (strings.Split(p, "/"))
RECURSIVE SplitSlash(_)
SplitSlash(p) ==
    LET i == Index(p, <<"/">>)
    IN  IF i = -1 THEN <<p>> ELSE <<Take(p, i)>> \o SplitSlash(Drop(p, i + 1))

RECURSIVE JoinSlash(_)
JoinSlash(comps) ==
    IF comps = <<>> THEN <<>>
    ELSE IF Len(comps) = 1 THEN comps[1]
    ELSE comps[1] \o <<"/">> \o JoinSlash(Tail(comps))

\* path.Clean: the lexical processing of ".", ".." and repeated slashes
RECURSIVE CleanComps(_, _, _)
CleanComps(comps, stack, rooted) ==
    IF comps = <<>> THEN stack
    ELSE LET c == comps[1]
             rest == Tail(comps)
         IN  IF c = <<>> \/ c = <<".">> THEN CleanComps(rest, stack, rooted)
             ELSE IF c = <<".", ".">>
             THEN IF stack # <<>> /\ stack[Len(stack)] # <<".", ".">>
                  THEN CleanComps(rest, Take(stack, Len(stack) - 1), rooted)
                  ELSE IF rooted THEN CleanComps(rest, stack, rooted)
                  ELSE CleanComps(rest, Append(stack, c), rooted)
             ELSE CleanComps(rest, Append(stack, c), rooted)

PathClean(p) ==
    IF p = <<>> THEN <<".">>
    ELSE LET rooted == p[1] = "/"
             body == JoinSlash(CleanComps(SplitSlash(p), <<>>, rooted))
         IN  IF rooted THEN <<"/">> \o body
             ELSE IF body = <<>> THEN <<".">> ELSE body

\* path.Join of two elements: empty elements are ignored, the result is cleaned
PathJoin(a, b) ==
    IF a = <<>> /\ b = <<>> THEN <<>>
    ELSE IF a = <<>> THEN PathClean(b)
    ELSE IF b = <<>> THEN PathClean(a)
    ELSE PathClean(a \o <<"/">> \o b)

\* p without its trailing slashes
RECURSIVE StripTrailingSlashes(_)
StripTrailingSlashes(p) ==
    IF p # <<>> /\ p[Len(p)] = "/" THEN StripTrailingSlashes(Take(p, Len(p) - 1)) ELSE p

\* filepath.Base
PathBase(p) ==
    IF p = <<>> THEN <<".">>
    ELSE LET q == StripTrailingSlashes(p)
         IN  IF q = <<>> THEN <<"/">>
             ELSE Drop(q, LastIndex(q, <<"/">>) + 1)

\* filepath.Dir
PathDir(p) == PathClean(Take(p, LastIndex(p, <<"/">>) + 1))

(***************************************************************************)
(* stacktrace/filesystem.go                                                *)
(***************************************************************************)
SrcMarker == <<"/", "s", "r", "c", "/">>

\* GopathRelativeFile, were the text after the first "/src/" returned
AfterFirstMarker(absPath) ==
    LET first == Index(absPath, SrcMarker)
    IN  IF first = -1 THEN absPath ELSE Drop(absPath, first + Len(SrcMarker))

\* GopathRelativeFile: strings.SplitAfter never returns an empty list, so the
\* last candidate (the text after the last "/src/") is always returned.
GopathRelativeFile(absPath) ==
    LET last == LastIndex(absPath, SrcMarker)
    IN  IF last = -1 THEN absPath ELSE Drop(absPath, last + Len(SrcMarker))

IgnoredPrefixes ==
    << gopath,
       <<"e", "x", "t", "e", "r", "n", "a", "l", "/">>,
       <<"G", "O", "R", "O", "O", "T", "/">>,
       <<"b", "a", "z", "e", "l", "-">> >>

\* GuessAbsPath, were every path that is not left alone joined onto GOPATH
GuessUnderRoot(f) ==
    IF gopath = <<>> \/ HasPrefix(f, <<"/">>) THEN f
    ELSE IF \E k \in 1..Len(IgnoredPrefixes) : HasPrefix(f, IgnoredPrefixes[k]) THEN f
    ELSE PathJoin(gopath, f)

\* GuessAbsPath
GuessAbsPath(f) ==
    IF gopath = <<>> \/ HasPrefix(f, <<"/">>) THEN f
    ELSE IF \E k \in 1..Len(IgnoredPrefixes) : HasPrefix(f, IgnoredPrefixes[k]) THEN f
    ELSE IF HasPrefix(f, PathBase(gopath)) THEN PathJoin(PathDir(gopath), f)
    ELSE PathJoin(gopath, f)

(***************************************************************************)
(* Frames.  A sentry.Frame is a record; a *sentry.Stacktrace is a record   *)
(* with isNil telling the nil pointer from a trace (whose Frames may be    *)
(* empty).                                                                 *)
(***************************************************************************)
Frame(abs, file, fn, mod, line, inApp) ==
    [AbsPath |-> abs, Filename |-> file, Function |-> fn, Module |-> mod,
     Lineno |-> line, InApp |-> inApp]

NilTrace == [isNil |-> TRUE, Frames |-> <<>>]
Trace(frames) == [isNil |-> FALSE, Frames |-> frames]

RuntimeModule == <<"r", "u", "n", "t", "i", "m", "e">>
TestingModule == <<"t", "e", "s", "t", "i", "n", "g">>
SentryGoModule ==
    <<"g", "i", "t", "h", "u", "b", ".", "c", "o", "m", "/", "g", "e", "t", "s",
      "e", "n", "t", "r", "y", "/", "s", "e", "n", "t", "r", "y", "-", "g", "o">>
TestSuffix == <<"_", "t", "e", "s", "t">>

\* What sentry.NewFrame makes of the runtime.Frame of each program counter of
\* the model's binary.  Counter 0 stands for the zero runtime.Frame, which the
\* frame iterator yields for an empty list of counters.
PCs == 1..7
sentryNewFrame(pcv) ==
    CASE pcv = 1 -> Frame(<<"/", "g", "/", "s", "r", "c", "/", "a">>, <<>>,
                          <<"f">>, <<"a", "p", "p">>, 7, TRUE)
      [] pcv = 2 -> Frame(<<"/", "r", "/", "x">>, <<>>,
                          <<"g", "o">>, RuntimeModule, 12, FALSE)
      [] pcv = 3 -> Frame(<<>>, <<"l", "/", "b">>,
                          <<"h">>, <<"l">>, 3, TRUE)
      [] pcv = 4 -> Frame(<<"/", "s", "/", "c">>, <<>>,
                          <<"c">>, SentryGoModule, 40, TRUE)
      [] pcv = 5 -> Frame(<<"/", "r", "/", "t">>, <<>>,
                          <<"t">>, TestingModule, 5, FALSE)
      [] pcv = 6 -> Frame(<<"/", "s", "/", "t">>, <<>>,
                          <<"k">>, SentryGoModule \o TestSuffix, 9, TRUE)
      [] pcv = 7 -> Frame(<<"/", "g", "/", "s", "r", "c", "/", "v">>, <<>>,
                          <<"v">>, <<"v", "e", "n", "d", "o", "r", "/", "z">>, 8, FALSE)
      [] OTHER   -> Frame(<<>>, <<"u", "n", "k", "n", "o", "w", "n">>,
                          <<>>, <<>>, 0, TRUE)

\* fixUpFrame
fixUpFrame(frame) ==
    LET abs == IF frame.AbsPath # <<>> /\ ~HasPrefix(frame.AbsPath, <<"/">>)
               THEN GuessAbsPath(frame.AbsPath)
               ELSE IF frame.AbsPath = <<>> THEN GuessAbsPath(frame.Filename)
               ELSE frame.AbsPath
    IN  [frame EXCEPT !.AbsPath = abs, !.Filename = GopathRelativeFile(frame.Filename)]

\* NewFrame
NewFrame(pcv) == fixUpFrame(sentryNewFrame(pcv))

\* The runtime.Frames iterator over pcs: one frame per counter, and the zero
\* frame when there is none (Next is called before more is tested).
CallersFrames(pcs) == IF pcs = <<>> THEN <<0>> ELSE pcs

\* extractFrames, were each frame read put after those read before
extractInOrder(pcs) ==
    [k \in 1..Len(CallersFrames(pcs)) |-> NewFrame(CallersFrames(pcs)[k])]

\* extractFrames: each frame read is put in front of those read before
RECURSIVE extractFrames(_)
extractFrames(pcs) ==
    LET it == CallersFrames(pcs)
    IN  IF Len(it) = 1 THEN <<NewFrame(it[1])>>
        ELSE extractFrames(Tail(it)) \o <<NewFrame(it[1])>>

\* the test of filterFrames' loop body: the frame is skipped
SkippedFrame(frame) ==
    \/ frame.Module = RuntimeModule
    \/ frame.Module = TestingModule
    \/ HasPrefix(frame.Module, SentryGoModule) /\ ~HasSuffix(frame.Module, TestSuffix)

\* filterFrames, were the frames of Go alone skipped
filterGoFrames(frames) ==
    SelectSeq(frames, LAMBDA fr : fr.Module # RuntimeModule /\ fr.Module # TestingModule)

\* filterFrames returns nil, and no slice: "if len(frames) == 0"
filterFramesNil(frames) == Len(frames) = 0

\* filterFrames (a nil and an empty slice are both <<>>)
filterFrames(frames) == SelectSeq(frames, LAMBDA fr : ~SkippedFrame(fr))

(***************************************************************************)
(* stacktrace/formatters.go                                                *)
(***************************************************************************)

\* SourceFromStack, were the first frame of the list taken
SourceFromFirstFrame(s) ==
    IF s.isNil \/ Len(s.Frames) = 0 THEN <<>>
    ELSE LET f == s.Frames[1]
         IN  f.Function \o <<":">> \o Itoa(f.Lineno)

\* SourceFromStack: "<function>:<line>" of the innermost frame
SourceFromStack(s) ==
    IF s.isNil \/ Len(s.Frames) = 0 THEN <<>>
    ELSE LET f == s.Frames[Len(s.Frames)]
         IN  f.Function \o <<":">> \o Itoa(f.Lineno)

\* addExceptionSource (sentry/formatters.go)
addExceptionSource(value, trace) ==
    LET source == SourceFromStack(trace)
    IN  IF value = <<>> THEN source
        ELSE IF source # <<>> THEN value \o <<" ", "(">> \o source \o <<")">>
        ELSE value

(***************************************************************************)
(* Error values.  An error value is an object of the heap, named by a      *)
(* positive number; Nil is the nil error.  What an error value is shows    *)
(* only through the capabilities the code probes:                          *)
(*   msg            the text Error() returns                               *)
(*   hasUnwrap      it has an Unwrap() error method, returning unwrap      *)
(*   hasCause       it has a Cause() error method, returning cause         *)
(*   isFormatter    it is an xerrors.Formatter: FormatError makes the      *)
(*                  printer calls of writes and returns formatNext         *)
(*   hasStackTrace, hasStackFrames, hasGetStackTracer                      *)
(*                  the methods extractReflectedStacktraceMethod looks up; *)
(*                  stackTrace / stackFrames are the elements of the slice *)
(*                  the method returns (a counter, or -1 for an element    *)
(*                  that is neither a uintptr nor a struct with a          *)
(*                  ProgramCounter field)                                  *)
(*   badTracer, badAccessor                                                *)
(*                  the GetStackTracer method, or the StackTrace or        *)
(*                  StackFrames method, is one that reflect's Call with no *)
(*                  argument panics on (it takes parameters, or it         *)
(*                  returns nothing, so that [0] is out of range, or it    *)
(*                  panics itself)                                         *)
(*   frame          the three counters of an xerrors.Frame field named     *)
(*                  frame, <<>> when the value has no such field           *)
(***************************************************************************)
MaxChain == 12

RawError(text) ==
    [msg |-> text,
     hasUnwrap |-> FALSE, unwrap |-> Nil,
     hasCause |-> FALSE, cause |-> Nil,
     isFormatter |-> FALSE, writes |-> <<>>, formatNext |-> Nil,
     hasStackTrace |-> FALSE, stackTrace |-> <<>>,
     hasStackFrames |-> FALSE, stackFrames |-> <<>>,
     hasGetStackTracer |-> FALSE,
     badTracer |-> FALSE, badAccessor |-> FALSE,
     frame |-> <<>>]

\* the calls an xerrors.Printer receives
PrintCall == [op |-> "print", args |-> <<>>]
DetailCall == [op |-> "detail", args |-> <<>>]
PrintfCall(args) == [op |-> "printf", args |-> args]
StrArg(text) == [t |-> "string", s |-> text, n |-> 0]
IntArg(n) == [t |-> "int", s |-> <<>>, n |-> n]
OtherArg == [t |-> "other", s |-> <<>>, n |-> 0]

\* xerrors.Frame.Format: under Detail(), the function, then the location
FrameFormat(fn, file, line) ==
    <<DetailCall, PrintfCall(<<StrArg(fn)>>), PrintfCall(<<StrArg(file), IntArg(line)>>)>>

\* an error made by yerrors.New / xerrors.New: a message and a frame
XError(text, line) ==
    [RawError(text) EXCEPT
        !.isFormatter = TRUE,
        !.writes = <<PrintCall>> \o FrameFormat(<<"n">>, <<"/", "g", "/", "s", "r", "c", "/", "e">>, line),
        !.frame = <<4, 1, 2>>]

\* an error made by yerrors.Wrap / xerrors.Errorf("%w"): it wraps next
XWrap(text, line, next) ==
    [XError(text, line) EXCEPT
        !.hasUnwrap = TRUE, !.unwrap = next, !.formatNext = next]

\* the named error values of the model's heap, after the chain 1..MaxChain
SelfLoop    == MaxChain + 1
CycleA      == MaxChain + 2
CycleB      == MaxChain + 3
CauseLoop   == MaxChain + 4
NilUnwrap   == MaxChain + 5
OverNil     == MaxChain + 6
PkgError    == MaxChain + 7
BothWays    == MaxChain + 8
ColonError  == MaxChain + 9
FmtOnly     == MaxChain + 10
EmptyMethod == MaxChain + 11
AllSkipped  == MaxChain + 12
FormatLoop  == MaxChain + 13
XLeaf       == MaxChain + 14
XOuter      == MaxChain + 15
BadAccessor == MaxChain + 16
BadTracer   == MaxChain + 17
PlainOverX  == MaxChain + 18
OddWriter   == MaxChain + 19
LastError   == MaxChain + 19

ErrorIds == 1..LastError

ErrorValue(id) ==
    CASE id = 1 -> RawError(<<"i", "o">>)
      [] id \in 2..MaxChain ->
            [RawError(<<"w">> \o Itoa(id)) EXCEPT !.hasUnwrap = TRUE, !.unwrap = id - 1]
      [] id = SelfLoop ->
            [RawError(<<"s", "l">>) EXCEPT !.hasUnwrap = TRUE, !.unwrap = SelfLoop]
      [] id = CycleA ->
            [RawError(<<"c", "a">>) EXCEPT !.hasUnwrap = TRUE, !.unwrap = CycleB]
      [] id = CycleB ->
            [RawError(<<"c", "b">>) EXCEPT !.hasUnwrap = TRUE, !.unwrap = CycleA]
      [] id = CauseLoop ->
            [RawError(<<"c", "l">>) EXCEPT !.hasCause = TRUE, !.cause = CauseLoop]
      [] id = NilUnwrap ->
            [RawError(<<"n", "u">>) EXCEPT !.hasUnwrap = TRUE, !.unwrap = Nil]
      [] id = OverNil ->
            [RawError(<<"o", "n">>) EXCEPT !.hasUnwrap = TRUE, !.unwrap = NilUnwrap]
      [] id = PkgError ->
            [RawError(<<"p", ":", " ", "i", "o">>) EXCEPT
                !.hasCause = TRUE, !.cause = 1,
                !.hasStackTrace = TRUE, !.stackTrace = <<1, -1, 3>>]
      [] id = BothWays ->
            [RawError(<<"b", "w">>) EXCEPT
                !.hasUnwrap = TRUE, !.unwrap = 1,
                !.hasCause = TRUE, !.cause = ColonError]
      [] id = ColonError -> RawError(<<"t", ":", " ", "d">>)
      [] id = FmtOnly ->
            [RawError(<<"f", "o">>) EXCEPT
                !.isFormatter = TRUE,
                !.writes = <<PrintCall>> \o FrameFormat(<<"q">>, <<"/", "g", "/", "s", "r", "c", "/", "q">>, 21)]
      [] id = EmptyMethod ->
            [XError(<<"e", "m">>, 30) EXCEPT !.hasStackTrace = TRUE, !.stackTrace = <<>>]
      [] id = AllSkipped ->
            [RawError(<<"a", "s">>) EXCEPT
                !.hasGetStackTracer = TRUE,
                !.hasStackTrace = TRUE, !.stackTrace = <<1>>,
                !.hasStackFrames = TRUE, !.stackFrames = <<2, 5>>]
      [] id = FormatLoop ->
            [XError(<<"f", "l">>, 33) EXCEPT !.formatNext = FormatLoop]
      [] id = XLeaf -> XError(<<"x", "l">>, 41)
      [] id = XOuter -> XWrap(<<"x", "o", ":", " ", "x", "l">>, 42, XLeaf)
      [] id = BadAccessor ->
            [XError(<<"b", "a">>, 50) EXCEPT
                !.hasStackTrace = TRUE, !.stackTrace = <<1>>, !.badAccessor = TRUE]
      [] id = BadTracer ->
            [RawError(<<"b", "t">>) EXCEPT
                !.hasGetStackTracer = TRUE, !.badTracer = TRUE]
      [] id = PlainOverX ->
            [RawError(<<"p", "o">>) EXCEPT !.hasUnwrap = TRUE, !.unwrap = XLeaf]
      [] id = OddWriter ->
            [XError(<<"o", "w">>, 60) EXCEPT
                !.writes = <<DetailCall, PrintfCall(<<StrArg(<<"n">>)>>),
                             PrintfCall(<<IntArg(60), IntArg(2)>>)>>]

Heap == [id \in ErrorIds |-> ErrorValue(id)]

Message(err) == Heap[err].msg

\* the outcome of a computation: it never ends (hang), it panics and the
\* panic is not recovered on the way (panic), or it returns a value
Hang == [hang |-> TRUE, panic |-> FALSE]
Panic == [hang |-> FALSE, panic |-> TRUE]
Done(v) == [hang |-> FALSE, panic |-> FALSE, v |-> v]
Abnormal(r) == r.hang \/ r.panic

(***************************************************************************)
(* sentry/formatters.go: headline.  The loop follows Unwrap for as long as *)
(* err is an xerrors.Wrapper and has no bound; it ends exactly when the    *)
(* walk reaches a value that is no Wrapper (the nil error included).       *)
(* The walk is determined by err alone, so it never ends once it comes     *)
(* back to a value it has left: that outcome is Hang.                      *)
(***************************************************************************)
IsWrapper(err) == err # Nil /\ Heap[err].hasUnwrap

RECURSIVE headlineLoop(_, _, _)
headlineLoop(err, prev, seen) ==
    IF ~IsWrapper(err)
    THEN Done(IF prev # Nil THEN Message(prev) ELSE Message(err))
    ELSE IF err \in seen THEN Hang
    ELSE headlineLoop(Heap[err].unwrap, err, seen \cup {err})

headline(err) == headlineLoop(err, Nil, {})

(***************************************************************************)
(* The xerrors.Printer of GetXErrorStackTrace.                             *)
(***************************************************************************)
\* &xerrorsStack{trace: callSite}; warnings counts the glog.Warningf calls
xerrorsStack(callSite) ==
    [detail |-> FALSE, trace |-> callSite, fnName |-> <<>>, warnings |-> 0]

\* (*xerrorsStack).Printf without the test of the detail flag
PrintfAnyMode(x, args) ==
    IF Len(args) = 1
    THEN IF args[1].t = "string" THEN [x EXCEPT !.fnName = args[1].s] ELSE x
    ELSE IF Len(args) = 2
    THEN IF args[1].t # "string" \/ args[2].t # "int"
         THEN [x EXCEPT !.warnings = @ + 1]
         ELSE [x EXCEPT !.trace = Append(@,
                  fixUpFrame(Frame(args[1].s, args[1].s, x.fnName, <<>>, args[2].n, FALSE)))]
    ELSE x

\* (*xerrorsStack).Printf
Printf(x, args) ==
    IF ~x.detail THEN x
    ELSE IF Len(args) = 1
    THEN IF args[1].t = "string" THEN [x EXCEPT !.fnName = args[1].s] ELSE x
    ELSE IF Len(args) = 2
    THEN IF args[1].t # "string" \/ args[2].t # "int"
         THEN [x EXCEPT !.warnings = @ + 1]
         ELSE [x EXCEPT !.trace = Append(@,
                  fixUpFrame(Frame(args[1].s, args[1].s, x.fnName, <<>>, args[2].n, FALSE)))]
    ELSE x

\* one call on the printer: Printf, Detail (sets detail), or the empty body
\* of the other printing method
PrinterCall(x, call) ==
    CASE call.op = "printf" -> Printf(x, call.args)
      [] call.op = "detail" -> [x EXCEPT !.detail = TRUE]
      [] OTHER -> x

\* err.FormatError(xs): the calls of err, in order
RECURSIVE FormatError(_, _)
FormatError(x, calls) ==
    IF calls = <<>> THEN x ELSE FormatError(PrinterCall(x, calls[1]), Tail(calls))

\* the loop of GetXErrorStackTrace; it has no bound either
RECURSIVE xerrorsLoop(_, _, _)
xerrorsLoop(x, err, seen) ==
    IF err = Nil THEN Done(x)
    ELSE IF err \in seen THEN Hang
    ELSE LET xs == [x EXCEPT !.detail = FALSE]
             e == Heap[err]
         IN  IF e.isFormatter
             THEN xerrorsLoop(FormatError(xs, e.writes), e.formatNext, seen \cup {err})
             ELSE IF e.hasUnwrap
             THEN xerrorsLoop(xs, e.unwrap, seen \cup {err})
             ELSE xerrorsLoop(xs, Nil, seen \cup {err})

\* a stack result: the *sentry.Stacktrace and the warnings logged on the way
StackResult(trace, warnings) == [trace |-> trace, warnings |-> warnings]

\* return &xs.trace: never nil
TraceOf(r) ==
    IF Abnormal(r) THEN r ELSE Done(StackResult(Trace(r.v.trace), r.v.warnings))

\* GetXErrorStackTrace
GetXErrorStackTrace(callSite, err) ==
    TraceOf(xerrorsLoop(xerrorsStack(callSite), err, {}))

(***************************************************************************)
(* stacktrace: ExtractStacktrace and what it calls.                        *)
(***************************************************************************)

\* extractReflectedStacktraceMethod: the method chosen, "" for the invalid
\* Value.  The StackTrace method of what GetStackTracer returns is looked up
\* on a reflect.Value of a reflect.Value, where no such method exists, so
\* GetStackTracer alone selects nothing.
extractReflectedStacktraceMethod(err) ==
    IF Heap[err].hasStackFrames THEN "StackFrames"
    ELSE IF Heap[err].hasStackTrace THEN "StackTrace"
    ELSE ""

\* extractPcs: the counters of the elements that carry one
extractPcs(err, method) ==
    LET elems == IF method = "StackFrames" THEN Heap[err].stackFrames
                 ELSE Heap[err].stackTrace
    IN  SelectSeq(elems, LAMBDA el : el >= 0)

\* extractXErrorsPC, were the frame field read on errors that wrap nothing only
extractLeafPC(err) ==
    IF Heap[err].frame = <<>> \/ Heap[err].hasUnwrap THEN <<>>
    ELSE Tail(Heap[err].frame)

\* extractXErrorsPC: frame.frames[1:], or nil after the recovered panic of a
\* value without that field
extractXErrorsPC(err) ==
    IF Heap[err].frame = <<>> THEN <<>> ELSE Tail(Heap[err].frame)

\* ExtractFrames
ExtractFrames(pcs, err) ==
    GetXErrorStackTrace(filterFrames(extractFrames(pcs)), err)

\* ErrorPcs, were the frame field also read when the method yields no counter
ErrorPcsFallThrough(err, method) ==
    IF method # "" /\ Len(extractPcs(err, method)) > 0 THEN extractPcs(err, method)
    ELSE extractXErrorsPC(err)

\* the counters ExtractStacktrace works from: those of the method when the
\* error has one, and otherwise those of its frame field
ErrorPcs(err, method) ==
    IF method # "" THEN extractPcs(err, method) ELSE extractXErrorsPC(err)

\* the end of ExtractStacktrace, were the test of len(pcs) left out
FramesAlways(pcs, err) == ExtractFrames(pcs, err)

\* the end of ExtractStacktrace: nil when there is no counter
FramesOrNil(pcs, err) ==
    IF Len(pcs) = 0 THEN Done(StackResult(NilTrace, 0))
    ELSE ExtractFrames(pcs, err)

\* the reflective calls ExtractStacktrace makes on the methods of err panic:
\* methodGetStackTracer.Call(...)[0] in extractReflectedStacktraceMethod, or
\* method.Call(...)[0] in extractPcs.  Neither function recovers.
AccessorPanics(err) ==
    \/ Heap[err].hasGetStackTracer /\ Heap[err].badTracer
    \/ extractReflectedStacktraceMethod(err) # "" /\ Heap[err].badAccessor

\* ExtractStacktrace
ExtractStacktrace(err) ==
    IF AccessorPanics(err) THEN Panic
    ELSE FramesOrNil(ErrorPcs(err, extractReflectedStacktraceMethod(err)), err)

(***************************************************************************)
(* sentry: FromGlogEvent.                                                  *)
(*                                                                         *)
(* A glog.Event is [Severity, Message, StackTrace, Data]; an element of    *)
(* Data is [k, v] with k the dynamic type the switch tests:                *)
(*   "altDsn" (v a DSN), "fingerprint" (v a list of strings), "request",   *)
(*   "map" (v a map), "format" (glog.FormatStringArg, v the format),       *)
(*   "error" (glog.ErrorArg, v an error value), "other".                   *)
(***************************************************************************)
maxErrorDepth == 10

\* hostname, as init() leaves it: cut at the first "."
OsHostname == <<"h", ".", "x">>
hostname ==
    LET short == Index(OsHostname, <<".">>)
    IN  IF short # -1 THEN Take(OsHostname, short) ELSE OsHostname

\* os.Args[0]
Args0 == <<"/", "g", "/", "s", "r", "c", "/", "b">>

\* buildLevel: strings.ToLower of the severity
buildLevel(severity) ==
    CASE severity = "INFO" -> "info"
      [] severity = "WARNING" -> "warning"
      [] severity = "ERROR" -> "error"
      [] severity = "FATAL" -> "fatal"

NoRequest == [set |-> FALSE, URL |-> ""]
\* buildHttpRequest, reduced to the URL of the request
buildHttpRequest(r) == [set |-> TRUE, URL |-> r]

EmptyMap == [k \in {} |-> 0]
\* the merge, were a key that is already there left as it is
MergeKeepFirst(data, t) ==
    [k \in DOMAIN data \cup DOMAIN t |-> IF k \in DOMAIN data THEN data[k] ELSE t[k]]

\* for k, v := range t { data[k] = v }
MergeMap(data, t) ==
    [k \in DOMAIN data \cup DOMAIN t |-> IF k \in DOMAIN t THEN t[k] ELSE data[k]]

\* the type switch, were the Cause case placed before the Unwrap case
CauseFirst(err) ==
    IF Heap[err].hasCause THEN Heap[err].cause
    ELSE IF Heap[err].hasUnwrap THEN Heap[err].unwrap
    ELSE Nil

\* the type switch at the end of the record loop: the next error of the chain
NextError(err) ==
    IF Heap[err].hasUnwrap THEN Heap[err].unwrap
    ELSE IF Heap[err].hasCause THEN Heap[err].cause
    ELSE Nil

\* sentry.Exception, with the error value the record was built from (Nil for
\* the call site) kept beside it
Exception(type, value, trace, of) ==
    [Type |-> type, Value |-> value, Stacktrace |-> trace, of |-> of]

\* the sentry.Exception appended for err, given its trace and headline
ErrorException(err, errTrace, hl) ==
    LET parts == splitMessage(prependMessage(hl, Message(err)))
    IN  Exception(parts[1], addExceptionSource(parts[2], errTrace), errTrace, err)

NoRecords == [recs |-> <<>>, warnings |-> 0]

\* one iteration of the record loop, followed by the rest of the loop
AppendRecord(err, errTrace, hl, rest) ==
    IF Abnormal(errTrace) THEN errTrace
    ELSE IF Abnormal(hl) THEN hl
    ELSE IF Abnormal(rest) THEN rest
    ELSE Done([recs |-> <<ErrorException(err, errTrace.v.trace, hl.v)>> \o rest.v.recs,
               warnings |-> errTrace.v.warnings + rest.v.warnings])

\* the loop "for i := 0; i < maxErrorDepth && err != nil; i++": the records
\* it appends, in order, and the warnings logged
RECURSIVE errorRecords(_, _)
\* errorRecords, were the test of the loop "i <= maxErrorDepth"
errorRecordsOffByOne(err, i) ==
    IF ~(i <= maxErrorDepth /\ err # Nil) THEN Done(NoRecords)
    ELSE AppendRecord(err, ExtractStacktrace(err), headline(err),
                      errorRecords(NextError(err), i + 1))

errorRecords(err, i) ==
    IF ~(i < maxErrorDepth /\ err # Nil) THEN Done(NoRecords)
    ELSE AppendRecord(err, ExtractStacktrace(err), headline(err),
                      errorRecords(NextError(err), i + 1))

\* case glog.ErrorArg, given the headline of t.Error and the records
ErrorArgCase(s, hl, recs) ==
    IF Abnormal(hl) THEN hl
    ELSE IF Abnormal(recs) THEN recs
    ELSE Done([s EXCEPT !.Message = prependMessage(hl.v, @),
                        !.Exception = @ \o recs.v.recs,
                        !.warnings = @ + recs.v.warnings])

\* the body of "for _, d := range e.Data", on the locals of FromGlogEvent
dataCase(s, d) ==
    CASE d.k = "altDsn" -> Done([s EXCEPT !.targetDsn = d.v])
      [] d.k = "fingerprint" -> Done([s EXCEPT !.Fingerprint = d.v])
      [] d.k = "request" -> Done([s EXCEPT !.Request = buildHttpRequest(d.v)])
      [] d.k = "map" -> Done([s EXCEPT !.data = MergeMap(@, d.v)])
      [] d.k = "format" ->
            Done([s EXCEPT !.sanitizedFormatString = cleanupFormatString(d.v)])
      [] d.k = "error" -> ErrorArgCase(s, headline(d.v), errorRecords(d.v, 0))
      [] OTHER -> Done(s)

RECURSIVE dataLoop(_, _)
\* the rest of the loop after one element, unless that element never ended
DataLoopRest(r, rest) == IF Abnormal(r) THEN r ELSE dataLoop(r.v, rest)

dataLoop(s, data) ==
    IF data = <<>> THEN Done(s) ELSE DataLoopRest(dataCase(s, data[1]), Tail(data))

\* reverse, were the list left as it was built
reverseNothing(e) == e

\* reverse
reverse(e) == [i \in 1..Len(e) |-> e[Len(e) + 1 - i]]

\* buildFingerprint: "<filename> in <function> at line <n>" per in-app frame
\* of exceptions[0]
FingerprintEntry(f) ==
    f.Filename \o <<" ", "i", "n", " ">> \o f.Function
        \o <<" ", "a", "t", " ", "l", "i", "n", "e", " ">> \o Itoa(f.Lineno)

\* fingerprintOf, were the test of f.InApp left out
fingerprintOfAll(frames) ==
    [k \in 1..Len(frames) |-> FingerprintEntry(frames[k])]

RECURSIVE fingerprintOf(_)
fingerprintOf(frames) ==
    IF frames = <<>> THEN <<>>
    ELSE IF frames[1].InApp
    THEN <<FingerprintEntry(frames[1])>> \o fingerprintOf(Tail(frames))
    ELSE fingerprintOf(Tail(frames))

buildFingerprint(exceptions) == fingerprintOf(exceptions[1].Stacktrace.Frames)

\* the locals of FromGlogEvent before its loop over e.Data
Locals(e) ==
    [Message |-> removeGlogPrefixFromMessage(e.Message),
     Fingerprint |-> <<>>,
     Request |-> NoRequest,
     Exception |-> <<>>,
     data |-> EmptyMap,
     sanitizedFormatString |-> <<>>,
     targetDsn |-> "",
     warnings |-> 0]

\* CallSiteException, were the record given no stack trace
CallSiteNoTrace(s, trace) ==
    LET parts == splitMessage(s.Message)
    IN  Exception(IF s.sanitizedFormatString # <<>>
                  THEN s.sanitizedFormatString ELSE parts[1],
                  addExceptionSource(parts[2], trace), NilTrace, Nil)

\* CallSiteException, were the type always taken from the message
CallSiteFromMessage(s, trace) ==
    LET parts == splitMessage(s.Message)
    IN  Exception(parts[1], addExceptionSource(parts[2], trace), trace, Nil)

\* "if trace != nil": the record of the call site is appended
CallSiteException(s, trace) ==
    LET parts == splitMessage(s.Message)
    IN  Exception(IF s.sanitizedFormatString # <<>>
                  THEN s.sanitizedFormatString ELSE parts[1],
                  addExceptionSource(parts[2], trace), trace, Nil)

WithCallSite(s, trace) ==
    IF ~trace.isNil THEN Append(s.Exception, CallSiteException(s, trace))
    ELSE s.Exception

\* the fingerprint, were it derived whenever the flag is set
FingerprintAlwaysDerived(s, exc) ==
    IF fingerprinting THEN buildFingerprint(exc) ELSE s.Fingerprint

\* "if len(s.Fingerprint) == 0 && *sentryFingerprinting"
FingerprintFor(s, exc) ==
    IF Len(s.Fingerprint) = 0 /\ fingerprinting
    THEN buildFingerprint(exc) ELSE s.Fingerprint

\* the end of FromGlogEvent, from the reversed exception list on
SentryEvent(e, s, exc) ==
    [Message |-> s.Message,
     Level |-> buildLevel(e.Severity),
     ServerName |-> hostname,
     Logger |-> GopathRelativeFile(Args0),
     Extra |-> [hasData |-> DOMAIN s.data # {}, Data |-> s.data],
     Request |-> s.Request,
     Exception |-> exc,
     Fingerprint |-> FingerprintFor(s, exc)]

\* what FromGlogEvent returns, given the outcome r of its loop over e.Data
\* and the frames cs of the event's own stack
Assemble(e, r, cs) ==
    IF Abnormal(r) THEN r
    ELSE Done([event |-> SentryEvent(e, r.v, reverse(WithCallSite(r.v, cs.v.trace))),
               targetDsn |-> r.v.targetDsn,
               warnings |-> r.v.warnings + cs.v.warnings])

\* FromGlogEvent: Done([event, targetDsn, warnings]), Hang or Panic.
\* ExtractFrames is given no error here, so it follows no chain.
FromGlogEvent(e) ==
    Assemble(e, dataLoop(Locals(e), e.Data), ExtractFrames(e.StackTrace, Nil))

(***************************************************************************)
(* The inputs of the model.                                                *)
(***************************************************************************)
MaxData == 2

Severities == {"INFO", "WARNING", "ERROR", "FATAL"}

Ann(k, v) == [k |-> k, v |-> v]

Messages ==
    { <<"E", "]", " ", "i", "o">>,
      <<"t", ":", " ", "d">>,
      <<"]", " ", "a", "]", " ", "b", "\n", "c">>,
      <<"]", " ", "\n", "a", "\n">> }

Stacks == { <<>>, <<1>>, <<3, 2, 7>> }

\* the annotations that may stand at every place of e.Data
SideAnnotations ==
    {Ann("error", 1), Ann("error", XOuter)}
    \cup {Ann("altDsn", d) : d \in {"B", "X"}}
    \cup {Ann("fingerprint", fp) : fp \in {<<>>, <<<<"x">>, <<"y">>>>}}
    \cup {Ann("map", [k \in {"a"} |-> 1]), Ann("map", [k \in {"a", "b"} |-> 2])}
    \cup {Ann("format", <<"t", " ", "%", "s", ":", " ", "%", "s">>),
          Ann("format", <<"%", "s", ":", " ", "%", "v">>)}
    \cup {Ann("request", "u"), Ann("other", 0)}

Annotations == SideAnnotations \cup {Ann("error", id) : id \in ErrorIds}

SeqsUpTo(S, n) == UNION {[1..k -> S] : k \in 0..n}

\* e.Data: up to MaxData annotations, every error value of the heap at one
\* place at most and beside one other annotation at most
DataLists ==
    {d \in SeqsUpTo(Annotations, MaxData) :
        \/ \A k \in DOMAIN d : d[k] \in SideAnnotations
        \/ /\ Len(d) <= 2
           /\ Cardinality({k \in DOMAIN d : d[k] \notin SideAnnotations}) = 1}

FromEvents ==
    [Severity : {"ERROR"}, Message : Messages, StackTrace : Stacks, Data : DataLists]

GoPaths == { <<>>, <<"/", "g">> }

NotCalled == [called |-> FALSE]
Hung == [called |-> TRUE, hang |-> TRUE, panic |-> FALSE]
Panicked == [called |-> TRUE, hang |-> FALSE, panic |-> TRUE]
Returned(v) == [called |-> TRUE, hang |-> FALSE, panic |-> FALSE, v |-> v]

PipeIdle ==
    /\ dsns = <<"A">> /\ comm = <<>> /\ closed = FALSE /\ pc = "range"
    /\ handled = <<>> /\ invoked = 0 /\ captured = <<<<>>>>
    /\ logged = [glog |-> <<>>, local |-> 0]
WalkIdle ==
    /\ wpc = "idle" /\ wroot = Nil /\ wouter = Nil /\ werr = Nil /\ wi = 0 /\ wrecs = 0
    /\ wturns = 0
FromIdle == ev = Nil /\ out = NotCalled
HelperIdle == arg = <<>> /\ prefixArg = <<>> /\ applied = "" /\ res = <<>>
CallsIdle == running = <<>>
GelfIdle == gelf = <<>>
PrintIdle == printer = <<>>

(***************************************************************************)
(* FromSpec: FromGlogEvent applied to one event.                           *)
(***************************************************************************)
FromInit ==
    /\ fingerprinting \in BOOLEAN
    /\ gopath \in GoPaths
    /\ ev \in FromEvents
    /\ out = NotCalled
    /\ PipeIdle /\ WalkIdle /\ HelperIdle /\ CallsIdle /\ GelfIdle /\ PrintIdle

\* e, targetDsn := FromGlogEvent(ev)
Outcome(r) == IF r.hang THEN Hung ELSE IF r.panic THEN Panicked ELSE Returned(r.v)

FromCall ==
    /\ ~out.called
    /\ out' = Outcome(FromGlogEvent(ev))
    /\ UNCHANGED <<ev, envVars, printVars, gelfVars, callVars, helperVars, pipeVars, walkVars>>

FromNext == FromCall

FromSpec == FromInit /\ [][FromNext]_vars

(***************************************************************************)
(* WalkSpec: the loops of FromGlogEvent's glog.ErrorArg case that follow   *)
(* the chain of t.Error, one iteration per step.                           *)
(*   "first"    hl := headline(t.Error), the loop of headline              *)
(*   "loop"     the test of "for i := 0; i < maxErrorDepth && err != nil"  *)
(*   "printer"  ExtractStacktrace(err): the loop of GetXErrorStackTrace    *)
(*   "headline" headline(err), the loop of headline                        *)
(*   "advance"  the append, the type switch and i++                        *)
(*   "done"     the case is left                                           *)
(*   "panicked" a reflective call of ExtractStacktrace panicked            *)
(***************************************************************************)
WalkInit ==
    /\ wroot \in ErrorIds
    /\ wpc = "first"
    /\ werr = wroot
    /\ wouter = wroot
    /\ wi = 0
    /\ wrecs = 0
    /\ wturns = 0
    /\ fingerprinting = FALSE /\ gopath = <<>>
    /\ PipeIdle /\ FromIdle /\ HelperIdle /\ CallsIdle /\ GelfIdle /\ PrintIdle

\* one iteration of the loop of headline, or its end
HeadlineStep ==
    /\ wpc \in {"first", "headline"}
    /\ IF IsWrapper(werr)
       THEN werr' = Heap[werr].unwrap /\ wpc' = wpc /\ wturns' = (wturns + 1) % 2
       ELSE werr' = werr /\ wpc' = (IF wpc = "first" THEN "loop" ELSE "advance")
            /\ wturns' = 0
    /\ UNCHANGED <<wroot, wouter, wi, wrecs, envVars, printVars, gelfVars, callVars, helperVars, pipeVars, fromVars>>

\* the test of the record loop, and the start of ExtractStacktrace(err): a
\* reflective call may panic; with no counter it returns at once, and
\* otherwise ExtractFrames runs the printer
LoopTest ==
    /\ wpc = "loop"
    /\ IF wi < maxErrorDepth /\ wouter # Nil
       THEN /\ werr' = wouter
            /\ wpc' = IF AccessorPanics(wouter) THEN "panicked"
                      ELSE IF Len(ErrorPcs(wouter, extractReflectedStacktraceMethod(wouter))) = 0
                      THEN "headline" ELSE "printer"
       ELSE werr' = werr /\ wpc' = "done"
    /\ UNCHANGED <<wroot, wouter, wi, wrecs, wturns, envVars, printVars, gelfVars, callVars, helperVars, pipeVars, fromVars>>

\* the next err of the loop of GetXErrorStackTrace
PrinterNext(err) ==
    IF Heap[err].isFormatter THEN Heap[err].formatNext
    ELSE IF Heap[err].hasUnwrap THEN Heap[err].unwrap
    ELSE Nil

\* one iteration of the loop of GetXErrorStackTrace, or its end
PrinterStep ==
    /\ wpc = "printer"
    /\ IF werr # Nil
       THEN werr' = PrinterNext(werr) /\ wpc' = wpc /\ wturns' = (wturns + 1) % 2
       ELSE werr' = wouter /\ wpc' = "headline" /\ wturns' = 0
    /\ UNCHANGED <<wroot, wouter, wi, wrecs, envVars, printVars, gelfVars, callVars, helperVars, pipeVars, fromVars>>

\* the record is appended and err advances
Advance ==
    /\ wpc = "advance"
    /\ wrecs' = wrecs + 1
    /\ wi' = wi + 1
    /\ wouter' = NextError(wouter)
    /\ wpc' = "loop"
    /\ UNCHANGED <<wroot, werr, wturns, envVars, printVars, gelfVars, callVars, helperVars, pipeVars, fromVars>>

WalkNext ==
    \/ HeadlineStep
    \/ LoopTest
    \/ PrinterStep
    \/ Advance

WalkSpec == WalkInit /\ [][WalkNext]_vars

\* the goroutine that runs FromGlogEvent keeps running
WalkFair == WalkSpec /\ WF_vars(WalkNext)

(***************************************************************************)
(* CallsSpec: FromGlogEvent invoked by several goroutines at once, each on *)
(* its own event.  A call advances by one element of e.Data per step and   *)
(* ends with the step that builds the report; the steps of the calls       *)
(* interleave.  The flag and GOPATH are read by every step and are all the *)
(* calls share; s, data, sanitizedFormatString and targetDsn are locals.   *)
(***************************************************************************)
MaxCalls == 2

CallEvents ==
    [Severity : {"ERROR"}, Message : {<<"t", ":", " ", "d">>}, StackTrace : {<<3, 2, 7>>},
     Data : { <<>>,
              <<Ann("map", [k \in {"a"} |-> 1]), Ann("altDsn", "B")>>,
              <<Ann("fingerprint", <<<<"x">>, <<"y">>>>),
                Ann("map", [k \in {"a", "b"} |-> 2])>>,
              <<Ann("error", XOuter),
                Ann("format", <<"t", " ", "%", "s", ":", " ", "%", "s">>)>>,
              <<Ann("error", SelfLoop)>>,
              <<Ann("error", BadAccessor), Ann("request", "u")>> }]

\* a call at its entry: the locals are fresh
NewCall(e) == [ev |-> e, pos |-> 1, s |-> Locals(e), out |-> NotCalled]

CallsInit ==
    /\ running \in [1..MaxCalls -> {NewCall(e) : e \in CallEvents}]
    /\ fingerprinting \in BOOLEAN
    /\ gopath \in GoPaths
    /\ PipeIdle /\ FromIdle /\ WalkIdle /\ HelperIdle /\ GelfIdle /\ PrintIdle

\* the locals, were "data" a variable of the package
StoreShared(cs, t, s) ==
    [u \in DOMAIN cs |->
        IF u = t THEN [cs[u] EXCEPT !.s = s, !.pos = @ + 1]
        ELSE [cs[u] EXCEPT !.s.data = s.data]]

\* the body of the loop over e.Data assigns to the locals of its own call
StoreLocals(cs, t, s) == [cs EXCEPT ![t].s = s, ![t].pos = @ + 1]

\* the outcome r of one element of e.Data, in call t
AfterElement(t, r) ==
    IF Abnormal(r) THEN [running EXCEPT ![t].out = Outcome(r)]
    ELSE StoreLocals(running, t, r.v)

\* one iteration of "for _, d := range e.Data" in call t
DataStep(t) ==
    /\ ~running[t].out.called
    /\ running[t].pos <= Len(running[t].ev.Data)
    /\ running' = AfterElement(t, dataCase(running[t].s, running[t].ev.Data[running[t].pos]))
    /\ UNCHANGED <<envVars, printVars, gelfVars, pipeVars, fromVars, walkVars, helperVars>>

\* the rest of call t, from ExtractFrames(e.StackTrace, nil) to the return
FinishStep(t) ==
    /\ ~running[t].out.called
    /\ running[t].pos = Len(running[t].ev.Data) + 1
    /\ running' = [running EXCEPT ![t].out =
                    Outcome(Assemble(running[t].ev, Done(running[t].s),
                                     ExtractFrames(running[t].ev.StackTrace, Nil)))]
    /\ UNCHANGED <<envVars, printVars, gelfVars, pipeVars, fromVars, walkVars, helperVars>>

CallsNext == \E t \in 1..MaxCalls : DataStep(t) \/ FinishStep(t)

CallsSpec == CallsInit /\ [][CallsNext]_vars

(***************************************************************************)
(* GelfSpec: gelf.Capture.  The client dials the server, and the loop      *)
(* reads the events of eventCh one at a time; rl.Allow() lets through      *)
(* maxEventsPerSec events per interval of one second, counted from the     *)
(* first Allow after the interval before has passed.                       *)
(*   pc       "start", "range", "returned"                                 *)
(*   ch       the events sent on eventCh and not yet read                  *)
(*   max      maxEventsPerSec                                              *)
(*   count    rl: the events let through in the current interval           *)
(*   elapsed  rl: more than the interval has passed since it began         *)
(*   sent     the events given to the logger, in order                     *)
(*   reads    per event read: its number and the count Allow found         *)
(*   next     the number of the next event sent on eventCh                 *)
(*   result   what Capture returned                                        *)
(***************************************************************************)
MaxGelfEvents == 3
MaxRate == 2

GelfInit ==
    /\ \E m \in 0..MaxRate :
          gelf = [pc |-> "start", ch |-> <<>>, closed |-> FALSE, max |-> m,
                  count |-> 0, elapsed |-> FALSE, sent |-> <<>>, reads |-> <<>>,
                  next |-> 1, result |-> "none"]
    /\ fingerprinting = FALSE /\ gopath = <<>>
    /\ PipeIdle /\ FromIdle /\ WalkIdle /\ HelperIdle /\ CallsIdle /\ PrintIdle

\* c.Dial(serverUri) and c.NewLogger(): an error of either is returned
GelfDial ==
    /\ gelf.pc = "start"
    /\ \E ok \in BOOLEAN :
          gelf' = IF ok THEN [gelf EXCEPT !.pc = "range"]
                  ELSE [gelf EXCEPT !.pc = "returned", !.result = "err"]
    /\ UNCHANGED <<envVars, printVars, pipeVars, fromVars, walkVars, helperVars, callVars>>

\* glog sends an event on eventCh
GelfSend ==
    /\ ~gelf.closed
    /\ gelf.next <= MaxGelfEvents
    /\ \E sev \in Severities :
          gelf' = [gelf EXCEPT !.ch = Append(@, [id |-> gelf.next, Severity |-> sev]),
                               !.next = @ + 1]
    /\ UNCHANGED <<envVars, printVars, pipeVars, fromVars, walkVars, helperVars, callVars>>

GelfClose ==
    /\ ~gelf.closed
    /\ gelf' = [gelf EXCEPT !.closed = TRUE]
    /\ UNCHANGED <<envVars, printVars, pipeVars, fromVars, walkVars, helperVars, callVars>>

\* more than a second passes since the interval of the limiter began
GelfTick ==
    /\ ~gelf.elapsed
    /\ gelf' = [gelf EXCEPT !.elapsed = TRUE]
    /\ UNCHANGED <<envVars, printVars, pipeVars, fromVars, walkVars, helperVars, callVars>>

\* the count rl.Allow() compares with maxCount: 0 when the interval is over
AllowCount(g) == IF g.elapsed THEN 0 ELSE g.count

\* rl.Allow()
Allow(g) == AllowCount(g) < g.max

\* the loop body, were an event that is not allowed logged all the same
LogAlways(g, e) ==
    [g EXCEPT !.ch = Tail(@), !.elapsed = FALSE,
              !.count = IF Allow(g) THEN AllowCount(g) + 1 ELSE AllowCount(g),
              !.reads = Append(@, [id |-> e.id, found |-> AllowCount(g)]),
              !.sent = Append(@, e)]

\* the loop body: "if !rl.Allow() { continue }; logEvent(logger, e)"
LogIfAllowed(g, e) ==
    [g EXCEPT !.ch = Tail(@), !.elapsed = FALSE,
              !.count = IF Allow(g) THEN AllowCount(g) + 1 ELSE AllowCount(g),
              !.reads = Append(@, [id |-> e.id, found |-> AllowCount(g)]),
              !.sent = IF Allow(g) THEN Append(@, e) ELSE @]

\* "for e := range eventCh": one event is read
GelfReceive ==
    /\ gelf.pc = "range"
    /\ gelf.ch # <<>>
    /\ gelf' = LogIfAllowed(gelf, Head(gelf.ch))
    /\ UNCHANGED <<envVars, printVars, pipeVars, fromVars, walkVars, helperVars, callVars>>

\* the channel is closed and empty: the loop ends, "return nil"
GelfReturn ==
    /\ gelf.pc = "range"
    /\ gelf.ch = <<>> /\ gelf.closed
    /\ gelf' = [gelf EXCEPT !.pc = "returned", !.result = "nil"]
    /\ UNCHANGED <<envVars, printVars, pipeVars, fromVars, walkVars, helperVars, callVars>>

GelfNext ==
    \/ GelfDial
    \/ GelfSend
    \/ GelfClose
    \/ GelfTick
    \/ GelfReceive
    \/ GelfReturn

GelfSpec == GelfInit /\ [][GelfNext]_vars

\* the goroutine of Capture keeps running
GelfFair == GelfSpec /\ WF_vars(GelfDial \/ GelfReceive \/ GelfReturn)

(***************************************************************************)
(* PrinterSpec: the xerrors.Printer that GetXErrorStackTrace hands to the  *)
(* FormatError method of each error of the chain.  What a FormatError      *)
(* method writes is up to the error type, so the calls are any calls.      *)
(***************************************************************************)
MaxWrites == 5

\* the argument lists of a Printf call: a function name, a location, and
\* lists of other lengths and types
PrintfArgs ==
    { <<StrArg(<<"f">>)>>, <<StrArg(<<"h">>)>>, <<IntArg(7)>>,
      <<StrArg(<<"/", "g", "/", "s", "r", "c", "/", "e">>), IntArg(7)>>,
      <<IntArg(7), IntArg(9)>>, <<>> }

\* xs := &xerrorsStack{trace: callSite}
PrinterInit ==
    /\ \E site \in {<<>>, <<NewFrame(1)>>} :
          printer = [x |-> xerrorsStack(site), site |-> Len(site), log |-> <<>>]
    /\ fingerprinting = FALSE
    /\ gopath \in {<<>>, <<"/", "g">>}
    /\ PipeIdle /\ FromIdle /\ WalkIdle /\ HelperIdle /\ CallsIdle /\ GelfIdle

\* the printer after a call, the call written to the log with the mode the
\* printer was in when it was made
Called(x, call) ==
    [printer EXCEPT !.x = x, !.log = Append(@, [call |-> call, detail |-> printer.x.detail])]

\* the head of the loop of GetXErrorStackTrace: the next error of the chain
NextElement ==
    /\ printer # <<>> /\ Len(printer.log) < MaxWrites
    /\ printer' = Called([printer.x EXCEPT !.detail = FALSE], [op |-> "element", args |-> <<>>])
    /\ UNCHANGED <<envVars, pipeVars, fromVars, walkVars, helperVars, callVars, gelfVars>>

\* p.Detail()
WriteDetail ==
    /\ printer # <<>> /\ Len(printer.log) < MaxWrites
    /\ printer' = Called(PrinterCall(printer.x, DetailCall), DetailCall)
    /\ UNCHANGED <<envVars, pipeVars, fromVars, walkVars, helperVars, callVars, gelfVars>>

\* p.Print(...)
WritePrint ==
    /\ printer # <<>> /\ Len(printer.log) < MaxWrites
    /\ printer' = Called(PrinterCall(printer.x, PrintCall), PrintCall)
    /\ UNCHANGED <<envVars, pipeVars, fromVars, walkVars, helperVars, callVars, gelfVars>>

\* p.Printf(format, args...)
WritePrintf ==
    /\ printer # <<>> /\ Len(printer.log) < MaxWrites
    /\ \E args \in PrintfArgs :
          printer' = Called(PrinterCall(printer.x, PrintfCall(args)), PrintfCall(args))
    /\ UNCHANGED <<envVars, pipeVars, fromVars, walkVars, helperVars, callVars, gelfVars>>

WriteNext ==
    \/ NextElement
    \/ WriteDetail
    \/ WritePrint
    \/ WritePrintf

PrinterSpec == PrinterInit /\ [][WriteNext]_vars

(***************************************************************************)
(* FramesSpec: the frame functions of the stacktrace package, each applied *)
(* to one list of program counters.                                        *)
(***************************************************************************)
MaxPcs == 3

PcLists == SeqsUpTo(PCs, MaxPcs)

\* the errors ExtractFrames is given: none, a raw one, and two that write
\* frames as detail
TraceErrors == {Nil, 1, XOuter, OddWriter}

FramesInit ==
    /\ arg \in PcLists
    /\ prefixArg = <<>>
    /\ applied = ""
    /\ res = <<>>
    /\ fingerprinting = FALSE
    /\ gopath \in {<<>>, <<"/", "g">>}
    /\ PipeIdle /\ FromIdle /\ WalkIdle /\ CallsIdle /\ GelfIdle /\ PrintIdle

\* the frames of a list of counters, in the order of the list
FramesOf(pcs) == [k \in DOMAIN pcs |-> NewFrame(pcs[k])]

FilterCall ==
    /\ applied = ""
    /\ applied' = "filterFrames"
    /\ res' = [isNil |-> filterFramesNil(FramesOf(arg)),
               Frames |-> filterFrames(FramesOf(arg))]
    /\ UNCHANGED <<arg, prefixArg, envVars, printVars, gelfVars, callVars, pipeVars, fromVars, walkVars>>

ExtractCall ==
    /\ applied = ""
    /\ applied' = "extractFrames"
    /\ res' = extractFrames(arg)
    /\ UNCHANGED <<arg, prefixArg, envVars, printVars, gelfVars, callVars, pipeVars, fromVars, walkVars>>

TraceCall ==
    /\ applied = ""
    /\ applied' = "ExtractFrames"
    /\ \E err \in TraceErrors : res' = ExtractFrames(arg, err).v.trace
    /\ UNCHANGED <<arg, prefixArg, envVars, printVars, gelfVars, callVars, pipeVars, fromVars, walkVars>>

FramesNext ==
    \/ FilterCall
    \/ ExtractCall
    \/ TraceCall

FramesSpec == FramesInit /\ [][FramesNext]_vars

(***************************************************************************)
(* HelperSpec: the string helpers, each applied to one argument.           *)
(***************************************************************************)
MaxMsgLen == 4
MaxComps == 3

\* messages: every string of brackets, blanks, colons and a letter
MsgArgs == SeqsUpTo({"]", " ", "a", ":"}, MaxMsgLen)

\* headlines: none, a word, a word and a colon, a word after a bracket
HelperPrefixes == { <<>>, <<"a">>, <<"a", ":">>, <<"]", "a">> }

\* paths: up to MaxComps components, relative or rooted
PathArgs ==
    LET names == { <<"s", "r", "c">>, <<"a">>, <<"g">>, <<"g", "o">>,
                   <<"e", "x", "t", "e", "r", "n", "a", "l">>,
                   <<"G", "O", "R", "O", "O", "T">>,
                   <<"b", "a", "z", "e", "l", "-", "o">> }
    IN  {lead \o JoinSlash(cs) : lead \in {<<>>, <<"/">>}, cs \in SeqsUpTo(names, MaxComps)}

\* GOPATH: unset, one directory deep, two deep, and a relative one
HelperRoots ==
    { <<>>, <<"/", "g">>, <<"/", "a", "/", "g">>, <<"g">> }

HelperInit ==
    /\ arg \in MsgArgs \cup PathArgs
    /\ prefixArg = <<>>
    /\ applied = ""
    /\ res = <<>>
    /\ fingerprinting = FALSE
    /\ gopath \in HelperRoots
    /\ PipeIdle /\ FromIdle /\ WalkIdle /\ CallsIdle /\ GelfIdle /\ PrintIdle

StripCall ==
    /\ applied = ""
    /\ applied' = "removeGlogPrefixFromMessage"
    /\ res' = removeGlogPrefixFromMessage(arg)
    /\ UNCHANGED <<arg, prefixArg, envVars, printVars, gelfVars, callVars, pipeVars, fromVars, walkVars>>

RelativeCall ==
    /\ applied = ""
    /\ applied' = "GopathRelativeFile"
    /\ res' = GopathRelativeFile(arg)
    /\ UNCHANGED <<arg, prefixArg, envVars, printVars, gelfVars, callVars, pipeVars, fromVars, walkVars>>

GuessCall ==
    /\ applied = ""
    /\ applied' = "GuessAbsPath"
    /\ res' = GuessAbsPath(arg)
    /\ UNCHANGED <<arg, prefixArg, envVars, printVars, gelfVars, callVars, pipeVars, fromVars, walkVars>>

PrependCall ==
    /\ applied = ""
    /\ \E p \in HelperPrefixes :
          /\ prefixArg' = p
          /\ res' = prependMessage(p, arg)
    /\ applied' = "prependMessage"
    /\ UNCHANGED <<arg, envVars, printVars, gelfVars, callVars, pipeVars, fromVars, walkVars>>

HelperNext ==
    \/ StripCall
    \/ RelativeCall
    \/ GuessCall
    \/ PrependCall

HelperSpec == HelperInit /\ [][HelperNext]_vars

(***************************************************************************)
(* Spec: CaptureErrors.  One client and hub is made per element of dsns;   *)
(* hubs maps a DSN to the hub made last for it, primaryHub is the first.   *)
(* glog sends events on comm; the range loop receives them one at a time.  *)
(***************************************************************************)
MaxDsns == 2
MaxEvents == 2
CommCap == 1

DsnNames == {"A", "B", ""}
DsnLists == UNION {[1..k -> DsnNames] : k \in 1..MaxDsns}

\* the events glog may send: every severity, with or without a destination
\* override, and one whose error value wraps itself
PipeData ==
    { <<>>, <<Ann("altDsn", "B")>>, <<Ann("altDsn", "X")>>,
      <<Ann("error", 1), Ann("altDsn", "B"), Ann("altDsn", "")>>,
      <<Ann("error", SelfLoop)>>, <<Ann("error", BadAccessor)>>,
      <<Ann("error", OddWriter)>> }
PipeEvents ==
    [Severity : {"ERROR"}, Message : {<<"E", "]", " ", "m">>}, StackTrace : {<<1>>},
     Data : PipeData]
    \cup [Severity : Severities \ {"ERROR"}, Message : {<<"I", "]", " ", "m">>},
          StackTrace : {<<1>>}, Data : {<<Ann("altDsn", "B")>>}]

\* hubs[targetDsn], with its ok
HasHub(targetDsn) == \E i \in 1..Len(dsns) : dsns[i] = targetDsn
HubOf(targetDsn) == MaxOf({i \in 1..Len(dsns) : dsns[i] = targetDsn})
PrimaryHub == 1

Init ==
    /\ dsns \in DsnLists
    /\ comm = <<>>
    /\ closed = FALSE
    /\ pc = "range"
    /\ handled = <<>>
    /\ invoked = 0
    /\ captured = [i \in 1..Len(dsns) |-> <<>>]
    /\ logged = [glog |-> <<>>, local |-> 0]
    /\ fingerprinting = FALSE
    /\ gopath = <<>>
    /\ FromIdle /\ WalkIdle /\ HelperIdle /\ CallsIdle /\ GelfIdle /\ PrintIdle

\* glog sends an event on the channel
Send(e) ==
    /\ ~closed
    /\ Len(comm) < CommCap
    /\ Len(handled) + Len(comm) < MaxEvents
    /\ comm' = Append(comm, e)
    /\ UNCHANGED <<dsns, closed, pc, handled, invoked, captured, logged, envVars, printVars, gelfVars, callVars, helperVars, fromVars, walkVars>>

\* the channel is closed (on app exit)
Close ==
    /\ ~closed
    /\ closed' = TRUE
    /\ UNCHANGED <<dsns, comm, pc, handled, invoked, captured, logged, envVars, printVars, gelfVars, callVars, helperVars, fromVars, walkVars>>

\* glog.Warningf, were it glog.Errorf
UnexpectedAsError(n) ==
    [k \in 1..n |->
        [Severity |-> "ERROR", Message |-> <<"E", "]", " ", "u">>,
         StackTrace |-> <<1>>, Data |-> <<>>]]

\* the events of the n glog.Warningf("unexpected: Printf(...)") calls of a
\* printer
Unexpected(n) ==
    [k \in 1..n |->
        [Severity |-> "WARNING", Message |-> <<"W", "]", " ", "u">>,
         StackTrace |-> <<1>>, Data |-> <<>>]]

\* glog sends on the channel an event that handling has logged
Relay ==
    /\ ~closed
    /\ logged.glog # <<>>
    /\ Len(comm) < CommCap
    /\ comm' = Append(comm, Head(logged.glog))
    /\ logged' = [logged EXCEPT !.glog = Tail(@)]
    /\ UNCHANGED <<dsns, closed, pc, handled, invoked, captured, envVars, printVars, gelfVars, callVars, helperVars, fromVars, walkVars>>

\* hubs[targetDsn].CaptureEvent(e), or primaryHub.CaptureEvent(e); a failed
\* delivery is reported to the local log (log.Printf), glog being left alone
Capture(targetDsn, e) ==
    IF HasHub(targetDsn)
    THEN [captured EXCEPT ![HubOf(targetDsn)] = Append(@, e)]
    ELSE [captured EXCEPT ![PrimaryHub] = Append(@, e)]

\* the body of "if glogEvent.Severity == ERROR", r being what FromGlogEvent
\* does on the event: a call that never returns leaves the loop inside it,
\* and a panic it lets through ends the goroutine of CaptureErrors
Dispatch(r) ==
    /\ invoked' = invoked + 1
    /\ IF r.hang
       THEN pc' = "hung" /\ UNCHANGED <<captured, logged>>
       ELSE IF r.panic
       THEN pc' = "panicked" /\ UNCHANGED <<captured, logged>>
       ELSE /\ pc' = pc
            /\ captured' = Capture(r.v.targetDsn, r.v.event)
            /\ \E delivered \in BOOLEAN :
                  logged' = [glog |-> logged.glog \o Unexpected(r.v.warnings),
                             local |-> logged.local + (IF delivered THEN 0 ELSE 1)]

\* Receive, were the severity not tested
ReceiveAnySeverity ==
    /\ pc = "range"
    /\ comm # <<>>
    /\ comm' = Tail(comm)
    /\ handled' = Append(handled, Head(comm))
    /\ Dispatch(FromGlogEvent(Head(comm)))
    /\ UNCHANGED <<dsns, closed, envVars, printVars, gelfVars, callVars, helperVars, fromVars, walkVars>>

\* one iteration of "for glogEvent := range comm"
Receive ==
    /\ pc = "range"
    /\ comm # <<>>
    /\ comm' = Tail(comm)
    /\ handled' = Append(handled, Head(comm))
    /\ IF Head(comm).Severity = "ERROR"
       THEN Dispatch(FromGlogEvent(Head(comm)))
       ELSE UNCHANGED <<pc, invoked, captured, logged>>
    /\ UNCHANGED <<dsns, closed, envVars, printVars, gelfVars, callVars, helperVars, fromVars, walkVars>>

\* the range loop ends when the channel is closed and drained
Return ==
    /\ pc = "range"
    /\ comm = <<>>
    /\ closed
    /\ pc' = "returned"
    /\ UNCHANGED <<dsns, comm, closed, handled, invoked, captured, logged, envVars, printVars, gelfVars, callVars, helperVars, fromVars, walkVars>>

Next ==
    \/ \E e \in PipeEvents : Send(e)
    \/ Close
    \/ Relay
    \/ Receive
    \/ Return

Spec == Init /\ [][Next]_vars

(***************************************************************************)
(* The properties.  Vocabulary first.                                      *)
(***************************************************************************)
\* the number of events the clients have been given, all clients together
RECURSIVE SumLens(_, _)
SumLens(f, n) == IF n = 0 THEN 0 ELSE Len(f[n]) + SumLens(f, n - 1)
TotalCaptured == SumLens(captured, Len(captured))

ErrorsHandled == Cardinality({k \in DOMAIN handled : handled[k].Severity = "ERROR"})

\* the annotations of one kind of an event, in order
AnnsOf(e, kind) == SelectSeq(e.Data, LAMBDA d : d.k = kind)

\* the call of FromGlogEvent on ev has returned
Ret == out.called /\ ~out.hang /\ ~out.panic

\* the values of the chain of err: err, then what the type switch of the
\* record loop moves to, up to the nil error or a value met before
RECURSIVE ChainFrom(_, _)
ChainFrom(err, seen) ==
    IF err = Nil \/ err \in seen THEN <<>>
    ELSE <<err>> \o ChainFrom(NextError(err), seen \cup {err})

\* the chain of err comes back to one of its values
Cyclic(err) ==
    LET c == ChainFrom(err, {}) IN NextError(c[Len(c)]) # Nil

\* C1: CaptureErrors calls FromGlogEvent and gives a client a report only for
\* an event of severity ERROR: the calls made are as many as the ERROR events
\* received, whatever other events came before or after them, the clients
\* hold no more reports than calls were made, and every report is of level
\* "error".
C1_OnlyErrorsDispatched ==
    /\ invoked = ErrorsHandled
    /\ TotalCaptured <= invoked
    /\ \A c \in DOMAIN captured : \A k \in DOMAIN captured[c] :
          captured[c][k].Level = "error"

\* C1 happens: a FATAL event was received, then an ERROR event; one call was
\* made and one report given
C1_Witness ==
    /\ Len(handled) = 2
    /\ handled[1].Severity = "FATAL"
    /\ handled[2].Severity = "ERROR"
    /\ invoked = 1
    /\ TotalCaptured = 1

\* the client C2 names for event e: one configured for the AltDsn value of e
\* when that value is one of dsns, and the first client otherwise
C2Names(e, c) ==
    LET alts == AnnsOf(e, "altDsn")
    IN  IF alts # <<>> /\ \E i \in DOMAIN dsns : dsns[i] = alts[Len(alts)].v
        THEN dsns[c] = alts[Len(alts)].v
        ELSE c = 1

\* C2: for every ERROR event received (and on which FromGlogEvent returns)
\* exactly one client is given the report, and it is the client of the AltDsn
\* value of the event when that value is a configured DSN, the client of the
\* first DSN otherwise.
C2_OneClientAsNamed ==
    [][(/\ comm # <<>>
        /\ handled' = Append(handled, Head(comm))
        /\ Head(comm).Severity = "ERROR"
        /\ pc' = "range")
       => \E c \in DOMAIN captured :
            /\ Len(captured'[c]) = Len(captured[c]) + 1
            /\ \A d \in DOMAIN captured \ {c} : captured'[d] = captured[d]
            /\ C2Names(Head(comm), c)]_vars

\* C3: FromGlogEvent terminates for every error annotation: the loops that
\* follow the chain of the annotated error come to their end, a panic being
\* an end too.
C3_Terminates == <>(wpc \in {"done", "panicked"})

\* C4: when FromGlogEvent returns, an event without an error annotation has
\* exactly one record, and an event with a single error annotation whose
\* chain has n values has min(n, 10) + 1 records (a chain that comes back to
\* itself has more values than any n).
C4_RecordCount ==
    Ret =>
        LET errs == AnnsOf(ev, "error")
            recs == Len(out.v.event.Exception)
        IN  /\ Len(errs) = 0 => recs = 1
            /\ Len(errs) = 1 =>
                  recs = 1 + (IF Cyclic(errs[1].v) THEN 10
                              ELSE MinOf({Len(ChainFrom(errs[1].v, {})), 10}))

\* C4 happens: a single error annotation with a chain of more than 10 values,
\* and 11 records
C4_Witness ==
    /\ Ret
    /\ Len(AnnsOf(ev, "error")) = 1
    /\ ~Cyclic(AnnsOf(ev, "error")[1].v)
    /\ Len(ChainFrom(AnnsOf(ev, "error")[1].v, {})) > 10
    /\ Len(out.v.event.Exception) = 11

\* C5: in the list FromGlogEvent returns, the first record is the one of
\* the call site (built from the event's own stack); with a single error
\* annotation the records after it are those of the chain from the deepest
\* value processed to its wrappers, each record built from the value that
\* the next one wraps, and the last record is the one of the annotated value.
C5_Order ==
    Ret =>
        LET errs == AnnsOf(ev, "error")
            exc  == out.v.event.Exception
        IN  /\ exc[1].of = Nil
            /\ exc[1].Stacktrace = Trace(filterFrames(extractFrames(ev.StackTrace)))
            /\ Len(errs) = 1 =>
                  /\ Len(exc) >= 2
                  /\ exc[Len(exc)].of = errs[1].v
                  /\ \A k \in 2..Len(exc) :
                        /\ exc[k].of # Nil
                        /\ exc[k].Stacktrace = ExtractStacktrace(exc[k].of).v.trace
                        /\ k < Len(exc) => NextError(exc[k + 1].of) = exc[k].of

\* C5 happens: the chain 3 -> 2 -> 1 gives call site, 1, 2, 3
C5_Witness ==
    /\ Ret
    /\ AnnsOf(ev, "error") = <<Ann("error", 3)>>
    /\ Len(out.v.event.Exception) = 4
    /\ out.v.event.Exception[2].of = 1
    /\ out.v.event.Exception[4].of = 3

\* the non-nil values v1, v2, ... reached from err by Unwrap, up to a value
\* met before
RECURSIVE UnwrapValues(_, _)
UnwrapValues(err, seen) ==
    IF err = Nil \/ err \in seen THEN <<>>
    ELSE <<err>> \o (IF Heap[err].hasUnwrap
                     THEN UnwrapValues(Heap[err].unwrap, seen \cup {err})
                     ELSE <<>>)

\* the last of these values cannot be unwrapped further: it has no Unwrap
\* method, or its Unwrap method returns the nil error
EndsThere(vs) ==
    ~Heap[vs[Len(vs)]].hasUnwrap \/ Heap[vs[Len(vs)]].unwrap = Nil

\* C6: for the chain v1 -> ... -> vn of an annotated error, vn being a value
\* that cannot be unwrapped further, headline(v1) is the message of v(n-1)
\* when n >= 2 and the message of v1 when n = 1.
C6_SecondInnermost ==
    \A k \in DOMAIN ev.Data :
        (out.called /\ ev.Data[k].k = "error") =>
            LET vs == UnwrapValues(ev.Data[k].v, {})
                n  == Len(vs)
            IN  EndsThere(vs) =>
                    headline(vs[1]) = Done(Message(IF n >= 2 THEN vs[n - 1] ELSE vs[1]))

\* the message of the event without its glog prefix, and the headline of its
\* single error annotation
OriginalMessage == removeGlogPrefixFromMessage(ev.Message)
SingleHeadline == headline(AnnsOf(ev, "error")[1].v).v

\* C7 as stated: with an error annotation, the message of the report is the
\* headline, a blank line, and the prefix-stripped message of the event.
C7_BlankLine ==
    (Ret /\ Len(AnnsOf(ev, "error")) = 1) =>
        out.v.event.Message = SingleHeadline \o <<"\n", "\n">> \o OriginalMessage

\* what is left of the original message: a leading copy of the headline is
\* cut, then the white space around, then one leading ":"
Remainder ==
    TrimPrefix(TrimSpace(TrimPrefix(OriginalMessage, SingleHeadline)), <<":">>)

\* C7, amended: with a single error annotation the message of the report is
\* the headline, one newline, and what is left of the prefix-stripped message
\* of the event; it is the headline alone when nothing is left.
C7_OneNewline ==
    (Ret /\ Len(AnnsOf(ev, "error")) = 1) =>
        out.v.event.Message =
            (IF Remainder = <<>> THEN SingleHeadline
             ELSE SingleHeadline \o <<"\n">> \o Remainder)

\* C7 happens: a headline that the message does not start with, and the two
\* on two lines
C7_Witness ==
    /\ Ret
    /\ Len(AnnsOf(ev, "error")) = 1
    /\ Remainder = OriginalMessage
    /\ out.v.event.Message = SingleHeadline \o <<"\n">> \o OriginalMessage

\* "<filename> in <function> at line <n>" for each in-app frame, in order
RECURSIVE InAppEntries(_)
InAppEntries(frames) ==
    IF frames = <<>> THEN <<>>
    ELSE (IF frames[1].InApp
          THEN <<frames[1].Filename \o <<" ", "i", "n", " ">> \o frames[1].Function
                    \o <<" ", "a", "t", " ", "l", "i", "n", "e", " ">>
                    \o Itoa(frames[1].Lineno)>>
          ELSE <<>>) \o InAppEntries(Tail(frames))

\* the fingerprint derived from the stack of the first record of the report
Derived == InAppEntries(out.v.event.Exception[1].Stacktrace.Frames)

\* the fingerprint annotations of the event
Supplied == AnnsOf(ev, "fingerprint")

\* C8 as stated: the fingerprint of the report is the supplied one whenever a
\* fingerprint annotation was supplied; otherwise the derived one if the flag
\* is set; otherwise none.
C8_SuppliedVerbatim ==
    Ret =>
        out.v.event.Fingerprint =
            (IF Supplied # <<>> THEN Supplied[Len(Supplied)].v
             ELSE IF fingerprinting THEN Derived
             ELSE <<>>)

\* the strings of the last fingerprint annotation, none without annotation
Given == IF Supplied # <<>> THEN Supplied[Len(Supplied)].v ELSE <<>>

\* C8, amended: the fingerprint of the report is the supplied one whenever a
\* fingerprint annotation with at least one string was supplied (the last
\* one, if several); otherwise, an annotation without strings included, the
\* derived one if the flag is set; otherwise none.
C8_NonEmptyVerbatim ==
    Ret =>
        out.v.event.Fingerprint =
            (IF Given # <<>> THEN Given
             ELSE IF fingerprinting THEN Derived
             ELSE <<>>)

\* C8 happens: the flag is set, the stack would give a fingerprint, and the
\* report carries the supplied one
C8_Witness ==
    /\ Ret
    /\ fingerprinting
    /\ Given # <<>>
    /\ Derived # <<>>
    /\ out.v.event.Fingerprint = Given
    /\ out.v.event.Fingerprint # Derived

AccessorFrames(err) ==
    LET pcs == IF Heap[err].hasStackFrames THEN extractPcs(err, "StackFrames")
               ELSE IF Heap[err].hasStackTrace THEN extractPcs(err, "StackTrace")
               ELSE <<>>
    IN  IF pcs = <<>> THEN <<>> ELSE filterFrames(extractFrames(pcs))

DetailFrames(err) ==
    LET r == GetXErrorStackTrace(<<>>, err)
    IN  IF r.hang THEN <<>> ELSE r.v.trace.Frames

ScannedFrames(err) ==
    IF Heap[err].frame = <<>> THEN <<>>
    ELSE filterFrames(extractFrames(Tail(Heap[err].frame)))

\* C10 as stated: the record of an error value that exposes frames by any
\* one of the three conventions has a frame list, and it is not empty.
C10_AnyConvention ==
    Ret =>
        \A k \in DOMAIN out.v.event.Exception :
            LET r == out.v.event.Exception[k]
            IN  (/\ r.of # Nil
                 /\ \/ AccessorFrames(r.of) # <<>>
                    \/ DetailFrames(r.of) # <<>>
                    \/ ScannedFrames(r.of) # <<>>)
                => (~r.Stacktrace.isNil /\ r.Stacktrace.Frames # <<>>)

\* the counters stack extraction starts from: those of the accessor when the
\* value has one, even if it returns none, and those of the frame field only
\* when it has none
Counters(err) ==
    IF Heap[err].hasStackFrames THEN extractPcs(err, "StackFrames")
    ELSE IF Heap[err].hasStackTrace THEN extractPcs(err, "StackTrace")
    ELSE IF Heap[err].frame = <<>> THEN <<>>
    ELSE Tail(Heap[err].frame)

\* C10, amended: stack extraction takes the counters of the structured
\* accessor when the error value has one, and otherwise those found by the
\* scan of its frame field; there is no other order and no moving on.  With
\* no counter the record has no frame list at all; with counters its list is
\* their frames, filtered, followed by the frames the detail-formatter
\* protocol collects along the chain of the value.
C10_CountersFirst ==
    Ret =>
        \A k \in DOMAIN out.v.event.Exception :
            LET r == out.v.event.Exception[k]
            IN  r.of # Nil =>
                    r.Stacktrace =
                        (IF Counters(r.of) = <<>> THEN NilTrace
                         ELSE Trace(filterFrames(extractFrames(Counters(r.of)))
                                    \o DetailFrames(r.of)))

\* C10 happens: the record of an error value whose StackTrace method returns
\* no element, and which has a frame field and writes a frame as detail, has
\* no frame list
C10_Witness ==
    /\ Ret
    /\ \E k \in DOMAIN out.v.event.Exception :
          /\ out.v.event.Exception[k].of = EmptyMethod
          /\ ScannedFrames(EmptyMethod) # <<>>
          /\ DetailFrames(EmptyMethod) # <<>>
          /\ out.v.event.Exception[k].Stacktrace.isNil

\* C11: a panic raised while frames or the cause are extracted from an error
\* value is contained: every call of FromGlogEvent gives a report back and
\* lets no panic through to its caller.
C11_NoFault == out.called => ~out.panic

\* the 1-based places of arg where "] " starts
Squares == {k \in 1..(Len(arg) - 1) : arg[k] = "]" /\ arg[k + 1] = " "}

\* C12: removeGlogPrefixFromMessage removes everything up to and including
\* the first "] " and nothing else, so that a later "] " is kept; a message
\* without "] " is returned unchanged.
C12_StripOnce ==
    applied = "removeGlogPrefixFromMessage" =>
        IF Squares = {} THEN res = arg
        ELSE \E k \in Squares :
                /\ \A j \in Squares : k <= j
                /\ Len(res) = Len(arg) - (k + 1)
                /\ \A n \in 1..Len(res) : res[n] = arg[k + 1 + n]

\* a message with two "] " was stripped, and the second one is in the result
C12_Witness ==
    /\ applied = "removeGlogPrefixFromMessage"
    /\ Cardinality(Squares) = 2
    /\ \E n \in 1..(Len(res) - 1) : res[n] = "]" /\ res[n + 1] = " "

\* t is line cut at its first ": ": the text before it, or the whole of a
\* line that has none
CutAtColon(line, t) ==
    /\ HasPrefix(line, t)
    /\ \A k \in 1..(Len(t) - 1) : ~(t[k] = ":" /\ t[k + 1] = " ")
    /\ \/ Len(t) = Len(line)
       \/ HasPrefix(Drop(line, Len(t)), <<":", " ">>)

\* t is the first line of m, surrounding white space apart
FirstLineIs(m, t) ==
    /\ HasPrefix(TrimSpace(m), t)
    /\ \A k \in 1..Len(t) : t[k] # "\n"
    /\ \/ Len(t) = Len(TrimSpace(m))
       \/ TrimSpace(m)[Len(t) + 1] = "\n"

\* the counters of a call stack whose frames are reported, innermost first
KeptPcs(st) == SelectSeq(CallersFrames(st), LAMBDA p : ~SkippedFrame(NewFrame(p)))

\* the event has neither an error nor a format-string annotation
PlainEvent == AnnsOf(ev, "error") = <<>> /\ AnnsOf(ev, "format") = <<>>

\* C13: an ERROR event with neither an error nor a format-string annotation
\* gives exactly one exception record.  Its type is the first line of the
\* stripped message up to the first ": " (the whole line without one); when
\* the line has no ": ", its value starts with "<function>:<line>" of the
\* innermost frame of the call site; its frames are those of the event's own
\* call stack, outermost first.
C13_PlainEvent ==
    (Ret /\ PlainEvent) =>
        LET exc == out.v.event.Exception
            kept == KeptPcs(ev.StackTrace)
        IN  /\ Len(exc) = 1
            /\ \E line \in {Take(TrimSpace(out.v.event.Message), n) :
                              n \in 0..Len(TrimSpace(out.v.event.Message))} :
                  /\ FirstLineIs(out.v.event.Message, line)
                  /\ CutAtColon(line, exc[1].Type)
                  /\ (exc[1].Type = line /\ kept # <<>>) =>
                        HasPrefix(exc[1].Value,
                                  NewFrame(kept[1]).Function \o <<":">>
                                    \o Itoa(NewFrame(kept[1]).Lineno))
            /\ ~exc[1].Stacktrace.isNil
            /\ Len(exc[1].Stacktrace.Frames) = Len(kept)
            /\ \A k \in 1..Len(kept) :
                  exc[1].Stacktrace.Frames[k] = NewFrame(kept[Len(kept) + 1 - k])

\* C13 happens: a message without ": ", a call stack of which one frame is
\* left out, and the value names the innermost frame
C13_Witness ==
    /\ Ret /\ PlainEvent
    /\ ev.StackTrace = <<3, 2, 7>>
    /\ Len(out.v.event.Exception) = 1
    /\ out.v.event.Exception[1].Type = <<"i", "o">>
    /\ out.v.event.Exception[1].Value = <<"h", ":", "3">>
    /\ Len(out.v.event.Exception[1].Stacktrace.Frames) = 2

\* the prefixes of a string
Prefixes(s) == {Take(s, n) : n \in 0..Len(s)}

\* t is the part before the first ": " of the first line of m, and v starts
\* with the part after it
SplitsAs(m, t, v) ==
    \E line \in Prefixes(TrimSpace(m)) :
        /\ FirstLineIs(m, line)
        /\ CutAtColon(line, t)
        /\ HasPrefix(v, IF Len(t) = Len(line) THEN <<>> ELSE Drop(line, Len(t) + 2))

\* v starts with the part after the first ": " of the first line of m
StartsWithRest(m, v) == \E t \in Prefixes(TrimSpace(m)) : SplitsAs(m, t, v)

\* the format string of the event: that of its last format-string annotation
HasFormat == AnnsOf(ev, "format") # <<>>
LastFormat == AnnsOf(ev, "format")[Len(AnnsOf(ev, "format"))].v

\* C14 as stated: with a format-string annotation, the type of the call-site
\* record is the format string without its percent-directives and without
\* trailing colons and white space, and its value starts with the part of the
\* formatted message after the first ": ".
C14_TypeFromFormat ==
    (Ret /\ HasFormat) =>
        /\ out.v.event.Exception[1].Type = cleanupFormatString(LastFormat)
        /\ StartsWithRest(OriginalMessage, out.v.event.Exception[1].Value)

\* C14, amended: with a format-string annotation of which something is left
\* once the percent-directives, the trailing colon and white space are taken
\* off, the type of the call-site record is what is left; when nothing is
\* left, the type is taken from the message as without the annotation.  The
\* value starts with the part after the first ": " of the first line of the
\* report's message, which is the formatted message when the event has no
\* error annotation.
C14_TypeFromFormatIfLeft ==
    (Ret /\ HasFormat) =>
        /\ cleanupFormatString(LastFormat) # <<>> =>
             out.v.event.Exception[1].Type = cleanupFormatString(LastFormat)
        /\ cleanupFormatString(LastFormat) = <<>> =>
             SplitsAs(out.v.event.Message, out.v.event.Exception[1].Type,
                      out.v.event.Exception[1].Value)
        /\ StartsWithRest(out.v.event.Message, out.v.event.Exception[1].Value)
        /\ AnnsOf(ev, "error") = <<>> => out.v.event.Message = OriginalMessage

\* C14 happens: "t %s: %s" formatted to "t: d" gives the type "t" and a value
\* that starts with "d"
C14_Witness ==
    /\ Ret
    /\ HasFormat
    /\ LastFormat = <<"t", " ", "%", "s", ":", " ", "%", "s">>
    /\ AnnsOf(ev, "error") = <<>>
    /\ OriginalMessage = <<"t", ":", " ", "d">>
    /\ out.v.event.Exception[1].Type = <<"t">>
    /\ HasPrefix(out.v.event.Exception[1].Value, <<"d", " ", "(">>)

\* the error value follows no chain and carries no stack information: it has
\* no Unwrap or Cause method, no stack accessor method and no frame field
BareError(err) ==
    /\ ~Heap[err].hasUnwrap /\ ~Heap[err].hasCause
    /\ ~Heap[err].hasStackTrace /\ ~Heap[err].hasStackFrames
    /\ ~Heap[err].hasGetStackTracer
    /\ Heap[err].frame = <<>>

\* the event has one error annotation, and its error value is a bare one
OneBareError ==
    /\ Len(AnnsOf(ev, "error")) = 1
    /\ BareError(AnnsOf(ev, "error")[1].v)

\* C15: for an error annotation whose error value cannot be unwrapped and
\* carries no stack information there are exactly two records: the first is
\* the record of the call site, the second has the error message up to the
\* first ": " as type, the rest after it as value (empty without ": "),
\* and no frame list at all.
C15_BareErrorRecord ==
    (Ret /\ OneBareError) =>
        LET exc == out.v.event.Exception
            msg == Heap[AnnsOf(ev, "error")[1].v].msg
        IN  /\ Len(exc) = 2
            /\ exc[1].of = Nil /\ ~exc[1].Stacktrace.isNil
            /\ Len(exc[1].Stacktrace.Frames) = Len(KeptPcs(ev.StackTrace))
            /\ exc[2].of = AnnsOf(ev, "error")[1].v
            /\ \E line \in Prefixes(TrimSpace(msg)) :
                  /\ FirstLineIs(msg, line)
                  /\ CutAtColon(line, exc[2].Type)
                  /\ exc[2].Value = (IF Len(exc[2].Type) = Len(line) THEN <<>>
                                     ELSE Drop(line, Len(exc[2].Type) + 2))
            /\ exc[2].Stacktrace.isNil

\* C15 happens: the error "t: d" gives the second record "t", "d", no frames
C15_Witness ==
    /\ Ret /\ OneBareError
    /\ AnnsOf(ev, "error")[1].v = ColonError
    /\ Len(out.v.event.Exception) = 2
    /\ out.v.event.Exception[2].Type = <<"t">>
    /\ out.v.event.Exception[2].Value = <<"d">>
    /\ out.v.event.Exception[2].Stacktrace.isNil

\* the number of frames of a record; a record without a frame list has none
FrameCount(rec) == IF rec.Stacktrace.isNil THEN 0 ELSE Len(rec.Stacktrace.Frames)

\* the record at place k + 1 is that of an error wrapping the error of the
\* record at place k (the list runs from the cause outward)
WrapsPrevious(exc, k) ==
    /\ exc[k].of # Nil /\ exc[k + 1].of # Nil
    /\ NextError(exc[k + 1].of) = exc[k].of

\* the error records its frame as xerrors does: a frame field, reported
\* through FormatError, and no stack accessor method
FrameLayer(err) ==
    /\ Heap[err].frame # <<>> /\ Heap[err].isFormatter
    /\ ~Heap[err].hasStackTrace /\ ~Heap[err].hasStackFrames

\* C16 as stated: in the exception list of a chain of causes, the record of
\* a wrapping error never has fewer frames than the record of its cause.
C16_FramesGrowOutward ==
    Ret =>
        \A k \in 1..(Len(out.v.event.Exception) - 1) :
            WrapsPrevious(out.v.event.Exception, k) =>
                FrameCount(out.v.event.Exception[k + 1])
                    >= FrameCount(out.v.event.Exception[k])

\* C16, amended: the record of a wrapping error that records its frame as
\* xerrors does never has fewer frames than the record of a cause that does
\* so too, or of a cause without a frame list.
C16_FrameLayersGrowOutward ==
    Ret =>
        \A k \in 1..(Len(out.v.event.Exception) - 1) :
            (/\ WrapsPrevious(out.v.event.Exception, k)
             /\ FrameLayer(out.v.event.Exception[k + 1].of)
             /\ \/ FrameLayer(out.v.event.Exception[k].of)
                \/ out.v.event.Exception[k].Stacktrace.isNil) =>
                FrameCount(out.v.event.Exception[k + 1])
                    >= FrameCount(out.v.event.Exception[k])

\* C16 happens: a wrapped pair of errors with frames, two frames for the cause
\* and three for the error wrapping it
C16_Witness ==
    /\ Ret
    /\ Len(out.v.event.Exception) = 3
    /\ WrapsPrevious(out.v.event.Exception, 2)
    /\ out.v.event.Exception[3].of = XOuter
    /\ FrameCount(out.v.event.Exception[2]) = 2
    /\ FrameCount(out.v.event.Exception[3]) = 3

\* the 1-based places of arg where "/src/" starts
Markers == {k \in 1..(Len(arg) - 4) : SubSeq(arg, k, k + 4) = SrcMarker}

C18_BaseName ==
    (applied = "GopathRelativeFile" /\ Markers = {}) => res = PathBase(arg)

\* the 1-based place of the last slash of GOPATH, 0 without one
LastSlash == MaxOf({0} \cup {k \in 1..Len(gopath) : gopath[k] = "/"})

\* the base name of GOPATH and its parent directory
RootBase == Drop(gopath, LastSlash)
RootParent ==
    IF LastSlash = 0 THEN <<".">>
    ELSE IF LastSlash = 1 THEN <<"/">>
    ELSE Take(gopath, LastSlash - 1)

\* the path f under the directory dir
Under(dir, f) ==
    IF f = <<>> THEN dir
    ELSE IF dir = <<"/">> THEN dir \o f
    ELSE dir \o <<"/">> \o f

\* GuessAbsPath leaves the path alone: no GOPATH, an absolute path, or a path
\* that starts with GOPATH, "external/", "GOROOT/" or "bazel-"
LeftAlone ==
    \/ gopath = <<>>
    \/ (arg # <<>> /\ arg[1] = "/")
    \/ HasPrefix(arg, gopath)
    \/ HasPrefix(arg, <<"e", "x", "t", "e", "r", "n", "a", "l", "/">>)
    \/ HasPrefix(arg, <<"G", "O", "R", "O", "O", "T", "/">>)
    \/ HasPrefix(arg, <<"b", "a", "z", "e", "l", "-">>)

\* C19: GuessAbsPath returns for every path; it returns the path unchanged
\* without GOPATH, for an absolute path and for a path that starts with
\* GOPATH, "external/", "GOROOT/" or "bazel-"; every other path is returned
\* joined onto the parent directory of GOPATH when it begins with the base
\* name of GOPATH, and joined onto GOPATH otherwise.
C19_GuessCases ==
    applied = "GuessAbsPath" =>
        res = (IF LeftAlone THEN arg
               ELSE IF HasPrefix(arg, RootBase) THEN Under(RootParent, arg)
               ELSE Under(gopath, arg))

\* C19 happens: GOPATH /a/g and the path g/src/a give /a/g/src/a
C19_Witness ==
    /\ applied = "GuessAbsPath"
    /\ gopath = <<"/", "a", "/", "g">>
    /\ arg = <<"g", "/", "s", "r", "c", "/", "a">>
    /\ res = <<"/", "a", "/", "g", "/", "s", "r", "c", "/", "a">>

\* the keys of the map annotations of the event, and for a key the place of
\* the last map annotation that has it
MapKeys == UNION {DOMAIN AnnsOf(ev, "map")[i].v : i \in 1..Len(AnnsOf(ev, "map"))}
LastWith(k) ==
    MaxOf({i \in 1..Len(AnnsOf(ev, "map")) : k \in DOMAIN AnnsOf(ev, "map")[i].v})

\* the event without its annotations of unrecognized kinds
WithoutOthers == [ev EXCEPT !.Data = SelectSeq(ev.Data, LAMBDA d : d.k # "other")]

\* C20: the map annotations of the event are merged in annotation order into
\* one map, in which a key of several annotations has the value of the last
\* of them; the map is stored under Extra["Data"] only when it is not empty;
\* an annotation of an unrecognized kind changes nothing in the report.
C20_MapsMerged ==
    Ret =>
        /\ out.v.event.Extra.hasData = (MapKeys # {})
        /\ MapKeys # {} =>
             out.v.event.Extra.Data =
                [k \in MapKeys |-> AnnsOf(ev, "map")[LastWith(k)].v[k]]
        /\ AnnsOf(ev, "other") # <<>> => out = Outcome(FromGlogEvent(WithoutOthers))

\* C20 happens: {a: 2, b: 2} and then {a: 1} give {a: 1, b: 2}
C20_Witness ==
    /\ Ret
    /\ Len(AnnsOf(ev, "map")) = 2
    /\ out.v.event.Extra.hasData
    /\ out.v.event.Extra.Data = [k \in {"a", "b"} |-> IF k = "a" THEN 1 ELSE 2]

\* C21: FromGlogEvent may run concurrently on events of their own: a step of
\* one call changes neither the flag, GOPATH nor anything of another call,
\* and under every interleaving a call that has ended has the outcome, report
\* and destination selector, that FromGlogEvent has on its event alone.
C21_CallsIndependent ==
    /\ [](\A t \in DOMAIN running :
            running[t].out.called => running[t].out = Outcome(FromGlogEvent(running[t].ev)))
    /\ [][/\ fingerprinting' = fingerprinting /\ gopath' = gopath
          /\ \E t \in DOMAIN running :
                \A u \in DOMAIN running \ {t} : running'[u] = running[u]]_vars

\* C21 happens: one call has returned a report with extra data while another,
\* on an event without a map, is past its first element and has not ended
C21_Witness ==
    /\ running # <<>>
    /\ \E t, u \in DOMAIN running :
          /\ running[t].out.called /\ ~running[t].out.hang /\ ~running[t].out.panic
          /\ running[t].out.v.event.Extra.hasData
          /\ ~running[u].out.called /\ running[u].pos = 2
          /\ AnnsOf(running[u].ev, "map") = <<>>

\* the numbers of the events of a list, in order
IdsOf(events) == [k \in DOMAIN events |-> events[k].id]

\* the events read for which the limiter had room when they were read
LetThrough == SelectSeq(gelf.reads, LAMBDA r : r.found < gelf.max)

\* C22: gelf.Capture gives the logger the events it reads while the limiter
\* has room, each once and in channel order, and drops every other event
\* for good: what was logged is exactly the events read that the limiter let
\* through at their reading.  Once the channel is closed, the loop ends and
\* Capture returns nil.
C22_RateLimited ==
    /\ [](gelf # <<>> =>
            /\ IdsOf(gelf.sent) = IdsOf(LetThrough)
            /\ \A i, j \in DOMAIN gelf.sent : i < j => gelf.sent[i].id < gelf.sent[j].id
            /\ IdsOf(gelf.reads) = [k \in DOMAIN gelf.reads |-> k]
            /\ (gelf.result = "nil") => (gelf.closed /\ gelf.ch = <<>>))
    /\ ((gelf # <<>> /\ gelf.pc = "range" /\ gelf.closed)
          ~> (gelf.pc = "returned" /\ gelf.result = "nil"))

\* C22 happens: three events were read at a rate of one per second, the
\* second was dropped, a second passed, the third was logged, and Capture
\* has returned
C22_Witness ==
    /\ gelf # <<>>
    /\ gelf.max = 1
    /\ Len(gelf.reads) = 3
    /\ IdsOf(gelf.sent) = <<1, 3>>
    /\ gelf.result = "nil"

\* what prependMessage keeps of the message: the text after a leading copy
\* of the headline (the whole message when it does not start with one),
\* without the white space around it and without one leading ":"
AfterHeadline ==
    LET rest == IF HasPrefix(arg, prefixArg) THEN Drop(arg, Len(prefixArg)) ELSE arg
        bare == TrimSpace(rest)
    IN  IF HasPrefix(bare, <<":">>) THEN Tail(bare) ELSE bare

\* C23: prependMessage returns the headline alone when nothing is left of
\* the message once a leading copy of the headline is removed from it (so a
\* message equal to the headline yields the headline exactly), and otherwise
\* the headline, a line break and what is left.
C23_NoDuplicate ==
    (applied = "prependMessage") =>
        /\ res = (IF AfterHeadline = <<>> THEN prefixArg
                  ELSE prefixArg \o <<"\n">> \o AfterHeadline)
        /\ (arg = prefixArg => res = prefixArg)

\* C23 happens: a message that starts with its headline and goes on, and the
\* result holds the headline once
C23_Witness ==
    /\ applied = "prependMessage"
    /\ prefixArg = <<"a">>
    /\ arg = <<"a", ":", " ", "a">>
    /\ res = <<"a", "\n", " ", "a">>

\* the calls of the log, by what they are
NameWrite(w) ==
    w.call.op = "printf" /\ Len(w.call.args) = 1 /\ w.call.args[1].t = "string"
PairWrite(w) ==
    /\ w.call.op = "printf" /\ Len(w.call.args) = 2
    /\ w.call.args[1].t = "string" /\ w.call.args[2].t = "int"

\* the positions of the log where a (path, line) pair was written in detail
\* mode, in order
RECURSIVE PairsFrom(_)
PairsFrom(i) ==
    IF i > Len(printer.log) THEN <<>>
    ELSE (IF PairWrite(printer.log[i]) /\ printer.log[i].detail THEN <<i>> ELSE <<>>)
            \o PairsFrom(i + 1)

\* the function name given by the last single-string write made in detail
\* mode before position i of the log, the empty name when there is none
RECURSIVE NameBefore(_)
NameBefore(i) ==
    IF i <= 1 THEN <<>>
    ELSE IF NameWrite(printer.log[i - 1]) /\ printer.log[i - 1].detail
    THEN printer.log[i - 1].call.args[1].s
    ELSE NameBefore(i - 1)

\* the frames the printer has appended to those of the call site
Appended == SubSeq(printer.x.trace, printer.site + 1, Len(printer.x.trace))

\* C24: the frames appended are, one for one and in order, the (path, line)
\* pairs written in detail mode, each under the function name of the last
\* single-string write that counted before it; a Print call, and a Printf
\* call made when Detail() has not been called for the current error,
\* appends no frame and leaves the pending function name alone.
C24_FramePerPair ==
    /\ [](printer # <<>> =>
            LET pairs == PairsFrom(1)
            IN  /\ Len(Appended) = Len(pairs)
                /\ \A k \in DOMAIN pairs :
                      /\ Appended[k].Function = NameBefore(pairs[k])
                      /\ Appended[k].Lineno = printer.log[pairs[k]].call.args[2].n
                /\ printer.x.fnName = NameBefore(Len(printer.log) + 1))
    /\ [][(printer # <<>> /\ (WritePrint \/ (WritePrintf /\ ~printer.x.detail))) =>
            /\ printer'.x.trace = printer.x.trace
            /\ printer'.x.fnName = printer.x.fnName]_vars

\* C24 happens: a name written before Detail() and ignored, a Print call, and
\* a pair written in detail mode under the name written there
C24_Witness ==
    /\ printer # <<>>
    /\ Len(Appended) = 1
    /\ Appended[1].Function = <<"f">>
    /\ \E i \in DOMAIN printer.log :
          /\ NameWrite(printer.log[i]) /\ ~printer.log[i].detail
          /\ printer.log[i].call.args[1].s = <<"h">>
    /\ \E i \in DOMAIN printer.log : printer.log[i].call.op = "print"

\* the start of the detail block position i of the log lies in: the last
\* Detail() call before it, 0 when the error of position i has made none
RECURSIVE BlockStart(_)
BlockStart(i) ==
    IF i <= 1 THEN 0
    ELSE IF printer.log[i - 1].call.op = "detail" THEN i - 1
    ELSE IF printer.log[i - 1].call.op = "element" THEN 0
    ELSE BlockStart(i - 1)

\* a function name was written in the detail block of position i, before it
NamedInBlock(i) ==
    /\ BlockStart(i) > 0
    /\ \E j \in (BlockStart(i) + 1)..(i - 1) : NameWrite(printer.log[j])

\* C25: a (path, line) write that no function-name write precedes in its
\* detail block emits no frame: there are as many frames appended as pairs
\* written after a name of their own block.
C25_MalformedIgnored ==
    printer # <<>> =>
        Len(Appended) = Len(SelectSeq(PairsFrom(1), NamedInBlock))

\* the walk records a layer and moves on
Records == wpc = "advance" /\ wpc' = "loop"

\* C26: having recorded a layer, the walk goes on with what Unwrap() returns
\* when the error has an Unwrap accessor, else with what Cause() returns when
\* it has a Cause accessor, else with nothing; with nothing to go on with,
\* the nil a method returned included, the walk ends with no record added.
C26_ChainAdvance ==
    /\ [][Records =>
            /\ wrecs' = wrecs + 1
            /\ (Heap[wouter].hasUnwrap => wouter' = Heap[wouter].unwrap)
            /\ (~Heap[wouter].hasUnwrap /\ Heap[wouter].hasCause
                    => wouter' = Heap[wouter].cause)
            /\ (~Heap[wouter].hasUnwrap /\ ~Heap[wouter].hasCause => wouter' = Nil)]_vars
    /\ \A n \in 0..maxErrorDepth :
          (wpc = "loop" /\ wouter = Nil /\ wrecs = n) ~> (wpc = "done" /\ wrecs = n)
    /\ [][wpc = "done" => wrecs' = wrecs]_vars

\* C26 happens: an error with both accessors has been recorded and the walk
\* is at what its Unwrap() returns
C26_Witness ==
    /\ wroot = BothWays
    /\ wrecs = 1
    /\ wpc = "loop"
    /\ wouter = Heap[BothWays].unwrap
    /\ wouter # Heap[BothWays].cause

\* the events that handling itself has given to glog: those waiting for the
\* channel, and those of the channel and of the loop that the application
\* did not send
SelfLogged ==
    logged.glog \o SelectSeq(comm \o handled, LAMBDA e : e \notin PipeEvents)

\* C27: no event that handling gives to glog has the severity ERROR (an
\* unexpected detail write is logged as a WARNING, a failed delivery goes to
\* the local log), so FromGlogEvent is invoked for events of the application
\* only, and handling one event makes no report but its own.
C27_NoFeedback ==
    /\ [](\A k \in DOMAIN SelfLogged : SelfLogged[k].Severity = "WARNING")
    /\ [](invoked <= Len(SelectSeq(handled, LAMBDA e : e \in PipeEvents)))
    /\ [][(logged'.local > logged.local \/ Len(logged'.glog) > Len(logged.glog))
            => (invoked' = invoked + 1 /\ comm' = Tail(comm))]_vars

\* C27 happens: an event whose error made an unexpected detail write was
\* handled, the delivery failed, and the warning came back to the loop, which
\* made no report of it
C27_Witness ==
    /\ invoked = 1
    /\ logged.local = 1
    /\ Len(handled) = 2
    /\ handled[1].Data = <<Ann("error", OddWriter)>>
    /\ handled[2].Severity = "WARNING" /\ handled[2] \notin PipeEvents
    /\ TotalCaptured = 1

\* a frame of Go or of the SDK: its module is "runtime" or "testing", or it
\* starts with "github.com/getsentry/sentry-go" and does not end in "_test"
Internal(frame) ==
    \/ frame.Module \in {RuntimeModule, TestingModule}
    \/ /\ Len(frame.Module) >= Len(SentryGoModule)
       /\ SubSeq(frame.Module, 1, Len(SentryGoModule)) = SentryGoModule
       /\ (\/ Len(frame.Module) < Len(TestSuffix)
           \/ SubSeq(frame.Module, Len(frame.Module) - Len(TestSuffix) + 1, Len(frame.Module))
                 # TestSuffix)

\* the positions of the frames of a list that are not internal, in order
RECURSIVE KeptFrom(_, _)
KeptFrom(frames, i) ==
    IF i > Len(frames) THEN <<>>
    ELSE (IF Internal(frames[i]) THEN <<>> ELSE <<i>>) \o KeptFrom(frames, i + 1)

\* C28: filterFrames returns the frames of its input that are not internal,
\* each once and in the order of the input, and nil for an empty input; no
\* internal frame is among the frames ExtractFrames returns for a record.
C28_FilterFrames ==
    /\ (applied = "filterFrames") =>
            LET kept == KeptFrom(FramesOf(arg), 1)
            IN  /\ Len(res.Frames) = Len(kept)
                /\ \A k \in DOMAIN kept : res.Frames[k] = FramesOf(arg)[kept[k]]
                /\ (arg = <<>> => res.isNil)
    /\ (applied = "ExtractFrames") =>
            \A k \in DOMAIN res.Frames : ~Internal(res.Frames[k])

\* C28 happens: of an application frame, an SDK frame and a frame of a test
\* package of the SDK, the first and the last are returned
C28_Witness ==
    /\ applied = "filterFrames"
    /\ arg = <<1, 4, 6>>
    /\ res.Frames = <<NewFrame(1), NewFrame(6)>>
    /\ ~res.isNil

\* C30: extractFrames returns one frame per step of the frame iterator, the
\* frame of the last step first and that of the first step last, and so one
\* frame at least: the frame the iterator yields for an empty address list.
C30_ReverseOrder ==
    (applied = "extractFrames") =>
        LET steps == CallersFrames(arg)
        IN  /\ Len(res) = Len(steps)
            /\ \A k \in DOMAIN steps : res[Len(steps) + 1 - k] = NewFrame(steps[k])
            /\ Len(res) >= 1
            /\ (arg = <<>> => res = <<NewFrame(0)>>)

\* C30 happens: three counters, innermost first, and their frames outermost
\* first
C30_Witness ==
    /\ applied = "extractFrames"
    /\ arg = <<1, 2, 3>>
    /\ res = <<NewFrame(3), NewFrame(2), NewFrame(1)>>

\* C29: the exception list that fingerprint derivation is given is never
\* empty, and its first record is the record of the call site with a stack
\* trace that is not missing, whatever the call stack of the event: the
\* frames ExtractFrames returns for it, one at least for an empty call stack.
C29_FingerprintSafe ==
    Ret =>
        LET exc == out.v.event.Exception
        IN  /\ Len(exc) >= 1
            /\ exc[1].of = Nil
            /\ ~exc[1].Stacktrace.isNil
            /\ exc[1].Stacktrace = ExtractFrames(ev.StackTrace, Nil).v.trace
            /\ (ev.StackTrace = <<>> => Len(exc[1].Stacktrace.Frames) = 1)

\* C29 happens: an event with an empty call stack and no annotation, with
\* fingerprinting on: one record, and the fingerprint derived from its frame
C29_Witness ==
    /\ Ret
    /\ fingerprinting
    /\ ev.StackTrace = <<>>
    /\ ev.Data = <<>>
    /\ Len(out.v.event.Exception) = 1
    /\ Len(out.v.event.Fingerprint) = 1

=============================================================================
